---- MODULE Spec2Model ----
(***************************************************************************)
(* CommitPilot: the generatePRDescription command (PR-description loop,    *)
(* PR page, changelog-entry loop), the createReleaseCommand command        *)
(* (validate, sync, version, changelog, commit/tag/push, hosted release),  *)
(* the two commit-message commands, and the services they call             *)
(* (LLMService, getStagedDiff, getDetailedBranchDiff, getPRTemplate).      *)
(*                                                                         *)
(* Generated texts are symbolic: the initial draft is content 1 and the    *)
(* k-th refinement call of a loop returns content k + 1, so every call     *)
(* result is distinguishable from every other.  Every prompt reply, every  *)
(* generation outcome and every git/file outcome is an input chosen with   *)
(* \E.  The editor can be deactivated or closed by the user while the      *)
(* command is suspended at a prompt or at a generation call.               *)
(***************************************************************************)
EXTENDS Integers, Sequences, FiniteSets, TLC

VARIABLES
  cmd,            \* which command or service function runs: "pr", "release", "commitFull", ...
  pc,             \* position of the running command
  answer,         \* reply to the most recent command-level choice prompt
  baseBranch,     \* generatePRDescription: const baseBranch
  pr,             \* state of the PR-description refinement loop
  cl,             \* state of the changelog-entry refinement loop
  genCalls,       \* llm.generate calls issued outside the refinement steps (initial, title, changelog draft)
  titleFor,       \* description handed to the PR-title generation (0: none)
  continuations,  \* number of openPRCreationPage invocations
  continuedWith,  \* description handed to openPRCreationPage (0: none)
  clipboard,      \* clipboard text (0: never written)
  clipboardWrites,\* number of clipboard writes
  pagesOpened,    \* external PR pages opened (vscode.env.openExternal)
  docsOpened,     \* review documents opened outside the loops (fallback PR document, CHANGELOG.md)
  prRemote,       \* what openPRCreationPage found: a repository or none, remotes[0]?.fetchUrl
  prDocument,     \* content of the untitled markdown document opened by openPRCreationPage (0: none)
  changelog,      \* CHANGELOG.md: "absent", "present", "noUnreleased" (present without the
                  \* Unreleased heading), "default" (skeleton), "updated"
  savedEntries,   \* entries handed to updateUnreleasedChangelog (0: none)
  fileWrites,     \* number of fs.writeFile calls that completed
  notices,        \* command-level notifications, in order
  result,         \* how the command ended: "running", "returned", "unhandled"
  ops,            \* createReleaseCommand: operations started so far, with stage and outcome
  version,        \* createReleaseCommand: const newVersion ("none" until determined)
  pkgVersion,     \* version field of package.json ("old" until rewritten)
  token,          \* commitpilot.githubToken setting ("none" or "stored")
  origin,         \* the remote when the command starts: its copy of the current branch, its host
  releaseNotes,   \* createReleaseCommand: const releaseNotes (what updateChangelog returned)
  tagged,         \* arguments of the tag command that succeeded
  published,      \* tag_name and body of the release request sent to the host
  workingCopy,    \* CHANGELOG.md and package.json against HEAD, other uncommitted changes
  runs,           \* createReleaseCommand invocations so far
  changelogContent, \* updateChangelog: text of CHANGELOG.md, as a sequence of lines (<<>>: no file)
  updatedContent, \* updateChangelog: text handed to fs.writeFile
  newEntry,       \* updateChangelog: the returned entry
  currentVersion, \* determineNextVersion: let currentVersion, as a sequence of characters
  customVersion,  \* determineNextVersion: text in the custom-version input box
  nextVersion,    \* determineNextVersion: the returned string (<<>>: nothing returned)
  settings,       \* the commitPilot settings: provider, apiKey, useLearningMode
  llmCalls,       \* LLMService.generate calls of the command, in order, with what each one did
  scm,            \* the Git extension's first repository and its commit input box
  staged,         \* paths listed by `git diff --cached --name-only`, in listing order
  gitLog,         \* git commands run by the service functions, in order
  diffOutput,     \* getStagedDiff: the returned text, as a sequence of lines
  graph,          \* the commit graph: parent of each commit, tips of the base branch and of HEAD
  branchDiff,     \* getDetailedBranchDiff: the returned entries
  templateFiles,  \* what getPRTemplate finds: repository root, configured path, the two files
  template,       \* getPRTemplate: the returned prompt ("null": null)
  prompt,         \* generatePRDescription: const prompt
  tasks,          \* the command invocations of the user: command, position in its git commands, state
  subprocesses    \* git subprocesses started by execGitCommand that have not exited

vars == <<cmd, pc, answer, baseBranch, pr, cl, genCalls, titleFor, continuations,
          continuedWith, clipboard, clipboardWrites, pagesOpened, docsOpened, prDocument, prRemote,
          changelog, savedEntries, fileWrites, notices, result, ops, version,
          pkgVersion, token, origin, releaseNotes, tagged, published, workingCopy, runs,
          changelogContent, updatedContent, newEntry, currentVersion,
          customVersion, nextVersion, settings, llmCalls, scm, staged, gitLog,
          diffOutput, graph, branchDiff, templateFiles, template, prompt, tasks,
          subprocesses>>

prEffects == <<genCalls, titleFor, continuations, continuedWith, clipboard,
               clipboardWrites, pagesOpened, docsOpened, prDocument, prRemote, changelog, savedEntries,
               fileWrites>>

relData == <<origin, releaseNotes, tagged, published, workingCopy, runs>>

fnVars == <<changelogContent, updatedContent, newEntry, currentVersion,
            customVersion, nextVersion>>

ctxVars == <<graph, branchDiff, templateFiles, template, prompt>>

taskVars == <<tasks, subprocesses>>

svcVars == <<settings, llmCalls, scm, staged, gitLog, diffOutput, ctxVars, taskVars>>

relVars == <<ops, version, pkgVersion, token, relData, fnVars, svcVars>>

(***************************************************************************)
(* Bounds                                                                  *)
(***************************************************************************)
MaxRefine == 2     \* refinement generation calls per command
MaxDismiss == 1    \* dismissals of a Submit/Improve/Cancel pick per command
MaxLost == 1       \* times the user deactivates or closes a review editor per command

Feedbacks == {"shorter"}
EmptyFeedbacks == {"", "undefined"}          \* '' and a dismissed input box are both falsy
PickReplies == {"Submit", "Improve", "Cancel", "dismiss"}
RetryReplies == {"Retry", "Cancel", "dismiss"}
YesNoReplies == {"Yes", "No", "dismiss"}

Notice(kind, msg) == [kind |-> kind, msg |-> msg]

(***************************************************************************)
(* The refinement loops, as functions of the loop state and one input.     *)
(*   stage    "Iter"          top of the while body                        *)
(*            "Reviewing"     showQuickPick pending                        *)
(*            "FeedbackInput" showInputBox pending                         *)
(*            "Applying"      refinement llm.generate pending              *)
(*            "RetryPrompt"   showErrorMessage(Retry, Cancel) pending      *)
(*            "Approved", "Cancelled", "Failed"   loop left                *)
(***************************************************************************)
NoLoop ==
  [stage |-> "Idle", content |-> 0, shown |-> 0, choice |-> "none",
   feedback |-> "none", retry |-> "none", editor |-> "none",
   refineCalls |-> 0, improves |-> 0, failures |-> 0, dismissals |-> 0,
   lost |-> 0, shows |-> 0, notices |-> <<>>]

\* openTextDocument({content}) + showTextDocument(document), then the first loop test
EnterLoop(draft, firstNotices) ==
  [NoLoop EXCEPT !.stage = "Iter", !.content = draft, !.shown = draft,
                 !.editor = "active", !.shows = 1, !.notices = firstNotices]

\* the user switches to another tab or closes the review editor
LoseEditor(s, e) == [s EXCEPT !.editor = e, !.lost = @ + 1]

\* EnsureEditor as it would be if the editor is never shown again
EnsureEditorBroken(s) == s
\* top of the loop body: ensure the editor is active, replace its text
EnsureEditor(s) ==
  IF s.editor # "active"
  THEN [s EXCEPT !.editor = "active", !.shows = @ + 1]
  ELSE s

LoopIter(s) ==
  [EnsureEditor(s) EXCEPT !.shown = s.content, !.stage = "Reviewing",
                          !.choice = "none", !.feedback = "none", !.retry = "none"]

(***************************************************************************)
(* PR-description loop (generatePRDescription, the while loop)             *)
(***************************************************************************)
\* PRPick as it would be if a dismissed pick is taken for Cancel
PRPickDismissCancels(s, choice) ==
  CASE choice = "Submit" ->
         [s EXCEPT !.choice = choice, !.stage = "Approved",
                   !.notices = Append(@, Notice("info", "approved"))]
    [] choice = "Improve" ->
         [s EXCEPT !.choice = choice, !.stage = "FeedbackInput"]
    [] OTHER ->
         [s EXCEPT !.choice = choice, !.stage = "Cancelled",
                   !.dismissals = IF choice = "dismiss" THEN @ + 1 ELSE @,
                   !.notices = Append(@, Notice("info", "cancelled"))]
\* reply to showQuickPick([Submit Pull Request, Improve Description, Cancel])
PRPick(s, choice) ==
  CASE choice = "dismiss" ->
         \* throw new Error('closed editors'); the catch warns, reopens, continues
         [s EXCEPT !.choice = choice, !.stage = "Iter", !.editor = "active",
                   !.shows = @ + 1, !.dismissals = @ + 1,
                   !.notices = Append(@, Notice("warning", "editor was closed, reopening"))]
    [] choice = "Submit" ->
         [s EXCEPT !.choice = choice, !.stage = "Approved",
                   !.notices = Append(@, Notice("info", "approved"))]
    [] choice = "Improve" ->
         [s EXCEPT !.choice = choice, !.stage = "FeedbackInput"]
    [] OTHER ->
         [s EXCEPT !.choice = choice, !.stage = "Cancelled",
                   !.notices = Append(@, Notice("info", "cancelled"))]

\* reply to showInputBox('What would you like to improve in the description?')
PRFeedback(s, text) ==
  IF text \in EmptyFeedbacks
  THEN [s EXCEPT !.feedback = text, !.stage = "Iter"]
  ELSE [s EXCEPT !.feedback = text, !.stage = "Applying", !.improves = @ + 1,
                 !.notices = Append(@, Notice("info", "refining"))]

\* PRApply as it would be if the result of the call is not assigned
PRApplyKeepsContent(s, ok) ==
  IF ok
  THEN [s EXCEPT !.refineCalls = @ + 1, !.stage = "Iter"]
  ELSE [s EXCEPT !.refineCalls = @ + 1, !.failures = @ + 1, !.stage = "RetryPrompt"]
\* PRApply as it would be if a failed call leaves `description` undefined
PRApplyFailureClearsContent(s, ok) ==
  IF ok
  THEN [s EXCEPT !.refineCalls = @ + 1, !.content = s.refineCalls + 2, !.stage = "Iter"]
  ELSE [s EXCEPT !.refineCalls = @ + 1, !.failures = @ + 1, !.content = 0,
                 !.stage = "RetryPrompt"]
\* description = await llm.generate(REFINE_PR_DESCRIPTION_PROMPT, {refinementInput, description})
PRApply(s, ok) ==
  IF ok
  THEN [s EXCEPT !.refineCalls = @ + 1, !.content = s.refineCalls + 2, !.stage = "Iter"]
  ELSE [s EXCEPT !.refineCalls = @ + 1, !.failures = @ + 1, !.stage = "RetryPrompt"]

\* PRRetry as it would be if Retry jumps back to the refinement call
PRRetryReissues(s, reply) ==
  IF reply = "Retry"
  THEN [s EXCEPT !.retry = reply, !.stage = "Applying"]
  ELSE [s EXCEPT !.retry = reply, !.stage = "Cancelled",
                 !.notices = Append(@, Notice("info", "cancelled"))]
\* reply to showErrorMessage('Error updating pull request description...', 'Retry', 'Cancel')
PRRetry(s, reply) ==
  IF reply = "Retry"
  THEN [s EXCEPT !.retry = reply, !.stage = "Iter"]
  ELSE [s EXCEPT !.retry = reply, !.stage = "Cancelled",
                 !.notices = Append(@, Notice("info", "cancelled"))]

(***************************************************************************)
(* Changelog-entry loop (generateChangelogFeedbackLoop, the while loop)    *)
(***************************************************************************)
\* CLPick as it would be if the return after Cancel is missing
CLPickCancelFallsThrough(s, choice) ==
  CASE choice = "Submit" ->
         [s EXCEPT !.choice = choice, !.stage = "Approved"]
    [] choice = "Improve" ->
         [s EXCEPT !.choice = choice, !.stage = "FeedbackInput"]
    [] choice = "Cancel" ->
         [s EXCEPT !.choice = choice, !.stage = "Iter",
                   !.notices = Append(@, Notice("info", "cancelled"))]
    [] OTHER ->
         [s EXCEPT !.choice = choice, !.stage = "Iter", !.dismissals = @ + 1]
\* reply to showQuickPick([Save Changelog, Improve Changelog, Cancel])
CLPick(s, choice) ==
  CASE choice = "Submit" ->
         [s EXCEPT !.choice = choice, !.stage = "Approved"]
    [] choice = "Improve" ->
         [s EXCEPT !.choice = choice, !.stage = "FeedbackInput"]
    [] choice = "Cancel" ->
         [s EXCEPT !.choice = choice, !.stage = "Cancelled",
                   !.notices = Append(@, Notice("info", "cancelled"))]
    [] OTHER ->
         \* undefined matches no branch: the while loop runs again
         [s EXCEPT !.choice = choice, !.stage = "Iter", !.dismissals = @ + 1]

\* CLFeedback as it would be if the test of the input is missing
CLFeedbackAlwaysApplies(s, text) ==
  [s EXCEPT !.feedback = text, !.stage = "Applying", !.improves = @ + 1]
\* reply to showInputBox('What would you like to improve in the changelog?')
CLFeedback(s, text) ==
  IF text \in EmptyFeedbacks
  THEN [s EXCEPT !.feedback = text, !.stage = "Iter"]
  ELSE [s EXCEPT !.feedback = text, !.stage = "Applying", !.improves = @ + 1]

\* changelogEntries = await llm.generate(REFINE_CHANGELOG_PROMPT, ...); no try/catch in the loop
CLApply(s, ok) ==
  IF ok
  THEN [s EXCEPT !.refineCalls = @ + 1, !.content = s.refineCalls + 2, !.stage = "Iter"]
  ELSE [s EXCEPT !.refineCalls = @ + 1, !.failures = @ + 1, !.stage = "Failed"]

LoopDone(s) == s.stage \in {"Approved", "Cancelled", "Failed"}
LoopSuspended(s) == s.stage \in {"Reviewing", "FeedbackInput", "Applying", "RetryPrompt"}

\* inputs the bounds still allow
PickInputs(dismissed) == {c \in PickReplies : c = "dismiss" => dismissed < MaxDismiss}
FeedbackInputs(refined) == EmptyFeedbacks \cup {f \in Feedbacks : refined < MaxRefine}

TotalGenCalls == genCalls + pr.refineCalls + cl.refineCalls

(***************************************************************************)
(* LLMService.  Nothing is kept in the instance (the constructor is        *)
(* empty): a generate call is a function of the call site, of the settings *)
(* at the time of the call, and of the outcomes of the git command and of  *)
(* the backend request it may issue.                                       *)
(***************************************************************************)
\* "default" is the value the setting has until the user picks a provider
ProviderSettings == {"default", "groq", "googleGenAI"}
ApiKeys == {"", "sk-1"}
Settings == [provider : ProviderSettings, apiKey : ApiKeys, useLearningMode : BOOLEAN]

\* package.json: the defaults of commitPilot.provider and commitPilot.useLearningMode
DefaultSettings(key) == [provider |-> "default", apiKey |-> key, useLearningMode |-> TRUE]

DEFAULT_PROVIDER == "groq"

PROVIDER_MODELS(provider) ==
  CASE provider = "groq" -> "llama-3.1-70b-versatile"
    [] provider = "openai" -> "gpt-4o-mini"
    [] OTHER -> "undefined"

\* config.get('provider') || DEFAULT_PROVIDER
ConfiguredProvider(s) == IF s.provider = "" THEN DEFAULT_PROVIDER ELSE s.provider

NoConfig == [apiKey |-> "", modelName |-> "none"]

\* getConfig as it would be if the API key is not checked
getConfigUnchecked(s) ==
  [apiKey |-> s.apiKey, modelName |-> PROVIDER_MODELS(ConfiguredProvider(s))]
\* LLMService.getConfig: NoConfig stands for the thrown 'API key not found' error
getConfig(s) ==
  IF s.apiKey = ""
  THEN NoConfig
  ELSE [apiKey |-> s.apiKey, modelName |-> PROVIDER_MODELS(ConfiguredProvider(s))]

\* LLMService.getProvider: the backend client that the switch creates
getProvider(s) ==
  [backend |-> CASE ConfiguredProvider(s) = "groq" -> "groq"
                 [] ConfiguredProvider(s) = "googleGenAI" -> "google"
                 [] OTHER -> "openai",
   apiKey |-> getConfig(s).apiKey,
   modelName |-> getConfig(s).modelName]

\* the generate calls of the commands
GenerateSites == {"commitFull", "commitSimple", "prInitial", "prRefine", "prTitle",
                  "changelogDraft", "changelogRefine"}

\* the disableExamples property each call site passes
DisableExamplesArg(site) == IF site \in {"prInitial", "prTitle"} THEN "true" ELSE "undefined"

\* LLMService.getPromptWithExamples; gitOk is the outcome of getRecentCommits(1)
getPromptWithExamples(s, disableExamples, gitOk) ==
  IF ~s.useLearningMode \/ disableExamples
  THEN "base"
  ELSE IF gitOk THEN "withExample" ELSE "gitFailed"

\* LLMService.generate: what one call reads, issues and returns
generate(site, s, gitOk, backendOk) ==
  LET arg == DisableExamplesArg(site)
      \* the parameter default: disableExamples = true
      disableExamples == IF arg = "undefined" THEN TRUE ELSE arg = "true"
      enhancedPrompt == getPromptWithExamples(s, disableExamples, gitOk)
      outcome == CASE enhancedPrompt = "gitFailed" -> "gitFailed"
                   [] getConfig(s) = NoConfig -> "keyMissing"
                   [] backendOk -> "ok"
                   [] OTHER -> "backendFailed"
      requested == outcome \in {"ok", "backendFailed"}
  IN [site |-> site,
      learning |-> s.useLearningMode,
      example |-> enhancedPrompt = "withExample",
      gitCalls |-> IF s.useLearningMode /\ ~disableExamples THEN 1 ELSE 0,
      backend |-> IF requested THEN getProvider(s).backend ELSE "none",
      apiKey |-> IF requested THEN getProvider(s).apiKey ELSE "",
      modelName |-> IF requested THEN getProvider(s).modelName ELSE "none",
      outcome |-> outcome]

\* whether the awaited generate call of a command resolves
Generated(site, backendOk) == generate(site, settings, TRUE, backendOk).outcome = "ok"

NoScm == [repo |-> "none", value |-> "none", writes |-> 0]

NoGraph == [parent |-> <<>>, base |-> 0, head |-> 0]

NoTasks == <<>>

NoTemplateFiles == [rootOk |-> FALSE, customPath |-> "", custom |-> "none", default |-> "none"]

\* the variables of the context gathering of generatePRDescription, where it is not followed
CtxIdle ==
  /\ graph = NoGraph
  /\ branchDiff = <<>>
  /\ templateFiles = NoTemplateFiles
  /\ template = "none"
  /\ prompt = "none"

\* the variables of the service functions, outside the commands that call them
SvcIdle ==
  /\ llmCalls = <<>>
  /\ scm = NoScm
  /\ staged = <<>>
  /\ gitLog = <<>>
  /\ diffOutput = <<>>
  /\ CtxIdle
  /\ tasks = NoTasks
  /\ subprocesses = {}

(***************************************************************************)
(* generatePRDescription                                                   *)
(***************************************************************************)
Notify(kind, msg) == notices' = Append(notices, Notice(kind, msg))

\* return / fall off the end of the command
Return == pc' = "done" /\ result' = "returned"

\* selectBaseBranch(): what it returns for each outcome of listing and picking
SelectedBranch(outcome) == IF outcome \in {"gitFailed", "dismiss"} THEN "none" ELSE outcome

\* NoBaseBranch as it would be if the guard is missing
NoBaseBranchNever(b) == FALSE
\* generatePRDescription: `if (!baseBranch) return`
NoBaseBranch(b) == b = "none"

SelectBaseBranch ==
  /\ cmd = "pr" /\ pc = "selectBranch"
  /\ \E outcome \in {"gitFailed", "dismiss", "main"} :
       /\ answer' = IF outcome = "gitFailed" THEN answer ELSE outcome
       /\ baseBranch' = SelectedBranch(outcome)
       /\ IF NoBaseBranch(baseBranch')
          THEN /\ Return
               /\ notices' = IF outcome = "gitFailed"
                             \* getAllBranches / getCurrentBranch threw: selectBaseBranch's own catch
                             THEN Append(notices, Notice("error", "failed to generate pull request description"))
                             ELSE notices
          ELSE /\ Notify("info", "analyzing code changes")
               /\ pc' = "gatherContext"
               /\ UNCHANGED result
  /\ UNCHANGED <<cmd, pr, cl, prEffects, relVars>>

\* getDetailedBranchDiff(baseBranch) and getPRTemplate(), both before the try block
GatherContext ==
  /\ cmd = "pr" /\ pc = "gatherContext"
  /\ \E diffOk \in BOOLEAN :
       IF diffOk
       THEN /\ Notify("info", "generating initial pull request description")
            /\ pc' = "initialGen"
            /\ UNCHANGED result
       ELSE \* a git failure here is outside every try block
            /\ pc' = "done"
            /\ result' = "unhandled"
            /\ UNCHANGED notices
  /\ UNCHANGED <<cmd, answer, baseBranch, pr, cl, prEffects, relVars>>

\* let description = await llm.generate(...); open and show the review document
InitialGen ==
  /\ cmd = "pr" /\ pc = "initialGen"
  /\ genCalls' = genCalls + 1
  /\ \E backendOk \in BOOLEAN :
       IF Generated("prInitial", backendOk)
       THEN /\ pr' = EnterLoop(1, <<>>)
            /\ Notify("info", "opening description for review")
            /\ pc' = "prLoop"
            /\ UNCHANGED result
       ELSE /\ Notify("error", "error generating pull request description")
            /\ Return
            /\ UNCHANGED pr
  /\ UNCHANGED <<cmd, answer, baseBranch, cl, titleFor, continuations, continuedWith,
                 clipboard, clipboardWrites, pagesOpened, docsOpened, prDocument, prRemote, changelog,
                 savedEntries, fileWrites, relVars>>

\* where the command continues once a step of the PR loop has run
AfterPRLoop(s) ==
  /\ pc' = CASE s.stage = "Approved" -> "titleGen"
             [] s.stage = "Cancelled" -> "done"
             [] OTHER -> pc
  /\ result' = IF s.stage = "Cancelled" THEN "returned" ELSE result

PRLoopFrame == UNCHANGED <<cmd, answer, baseBranch, cl, prEffects, notices, relVars>>

PRLoopIter ==
  /\ cmd = "pr" /\ pc = "prLoop" /\ pr.stage = "Iter"
  /\ pr' = LoopIter(pr)
  /\ AfterPRLoop(pr')
  /\ PRLoopFrame

PRLoopPick ==
  /\ cmd = "pr" /\ pc = "prLoop" /\ pr.stage = "Reviewing"
  /\ \E choice \in PickInputs(pr.dismissals) : pr' = PRPick(pr, choice)
  /\ AfterPRLoop(pr')
  /\ PRLoopFrame

PRLoopFeedback ==
  /\ cmd = "pr" /\ pc = "prLoop" /\ pr.stage = "FeedbackInput"
  /\ \E text \in FeedbackInputs(pr.refineCalls) : pr' = PRFeedback(pr, text)
  /\ AfterPRLoop(pr')
  /\ PRLoopFrame

PRLoopApply ==
  /\ cmd = "pr" /\ pc = "prLoop" /\ pr.stage = "Applying"
  /\ \E backendOk \in BOOLEAN : pr' = PRApply(pr, Generated("prRefine", backendOk))
  /\ AfterPRLoop(pr')
  /\ PRLoopFrame

PRLoopRetry ==
  /\ cmd = "pr" /\ pc = "prLoop" /\ pr.stage = "RetryPrompt"
  /\ \E reply \in RetryReplies : pr' = PRRetry(pr, reply)
  /\ AfterPRLoop(pr')
  /\ PRLoopFrame

\* the user leaves or closes the review editor while the command is suspended
PREditorLost ==
  /\ cmd = "pr" /\ pc = "prLoop" /\ LoopSuspended(pr)
  /\ pr.editor = "active" /\ pr.lost < MaxLost
  /\ \E e \in {"inactive", "closed"} : pr' = LoseEditor(pr, e)
  /\ UNCHANGED <<pc, result>>
  /\ PRLoopFrame

\* const title = await llm.generate(GENERATE_PR_TITLE_PROMPT, {description})
TitleGen ==
  /\ cmd = "pr" /\ pc = "titleGen"
  /\ genCalls' = genCalls + 1
  /\ titleFor' = pr.content
  /\ \E backendOk \in BOOLEAN :
       IF Generated("prTitle", backendOk)
       THEN /\ Notify("info", "opening pull request creation page")
            /\ pc' = "openPage"
            /\ UNCHANGED result
       ELSE /\ Notify("error", "error generating pull request description")
            /\ Return
  /\ UNCHANGED <<cmd, answer, baseBranch, pr, cl, continuations, continuedWith,
                 clipboard, clipboardWrites, pagesOpened, docsOpened, prDocument, prRemote, changelog,
                 savedEntries, fileWrites, relVars>>

\* A remote URL is the sequence of the pieces of its text, cut so that a host
\* name is one piece: `includes` on pieces is `includes` on characters.
Hosts == {"github.com", "gitlab.com", "bitbucket.org"}

RemoteUrls == {<<"git@", "github.com", ":", "o/r", ".git">>,
               <<"https://", "gitlab.com", "/", "o/r", ".git">>,
               <<"https://", "bitbucket.org", "/", "o/r">>,
               <<"git@", "git.example.org", ":", "o/r", ".git">>,
               <<"https://", "git.example.org", "/", "mirrors/", "github.com", "/", "o/r">>,
               <<"/srv/git/", "o/r", ".git">>}

\* repository.state.remotes[0]?.fetchUrl: undefined without a remote, and a
\* remote may have an empty fetch URL
NoFetchUrl == <<>>

NoRemote == [repository |-> FALSE, url |-> NoFetchUrl]

includes(str, piece) == \E i \in 1..Len(str) : str[i] = piece

\* openPRCreationPage when the final else branch is missing
PRPageNoFallback(repository, remote, description) ==
  [clipboard |-> IF repository /\ remote # NoFetchUrl THEN description ELSE 0,
   external |-> repository /\ \E h \in Hosts : includes(remote, h),
   document |-> 0,
   copiedNotice |-> repository /\ \E h \in Hosts : includes(remote, h)]

\* openPRCreationPage(description, baseBranch, title): what it writes to the
\* clipboard (0: nothing), whether it opens an external URL, the content of
\* the document it opens (0: none), whether it shows the "copied" notice
PRPage(repository, remote, description) ==
  IF ~repository \/ remote = NoFetchUrl
  THEN [clipboard |-> 0, external |-> FALSE, document |-> 0, copiedNotice |-> FALSE]
  ELSE IF includes(remote, "github.com") \/ includes(remote, "gitlab.com")
            \/ includes(remote, "bitbucket.org")
       THEN [clipboard |-> description, external |-> TRUE, document |-> 0,
             copiedNotice |-> TRUE]
       ELSE [clipboard |-> description, external |-> FALSE, document |-> description,
             copiedNotice |-> FALSE]

\* await openPRCreationPage(description, baseBranch, title.title); closeTemporaryDocuments()
OpenPRCreationPage ==
  /\ cmd = "pr" /\ pc = "openPage"
  /\ continuations' = continuations + 1
  /\ continuedWith' = pr.content
  /\ \E repository \in BOOLEAN, remote \in RemoteUrls \cup {NoFetchUrl} :
       /\ ~repository => remote = NoFetchUrl
       /\ prRemote' = [repository |-> repository, url |-> remote]
       /\ LET page == PRPage(repository, remote, pr.content) IN
            /\ clipboard' = IF page.clipboard = 0 THEN clipboard ELSE page.clipboard
            /\ clipboardWrites' = IF page.clipboard = 0 THEN clipboardWrites
                                  ELSE clipboardWrites + 1
            /\ pagesOpened' = IF page.external THEN pagesOpened + 1 ELSE pagesOpened
            /\ docsOpened' = IF page.document = 0 THEN docsOpened ELSE docsOpened + 1
            /\ prDocument' = page.document
            /\ notices' = notices
                 \o (IF page.copiedNotice
                     THEN <<Notice("info", "copied to clipboard, opening page")>> ELSE <<>>)
                 \o <<Notice("info", "pull request description and title generated")>>
  /\ pc' = "changelogCheck"
  /\ UNCHANGED <<cmd, answer, baseBranch, pr, cl, genCalls, titleFor, changelog,
                 savedEntries, fileWrites, result, relVars>>

\* await delay(1000); const isProjectHasChangelog = await isChangelogExists()
ChangelogCheck ==
  /\ cmd = "pr" /\ pc = "changelogCheck"
  /\ pc' = IF changelog = "absent" THEN "askCreate" ELSE "askUpdate"
  /\ UNCHANGED <<cmd, answer, baseBranch, pr, cl, prEffects, notices, result, relVars>>

\* showWarningMessage('No CHANGELOG.md found. Would you like to create a default one?', 'Yes', 'No')
AskCreate ==
  /\ cmd = "pr" /\ pc = "askCreate"
  /\ \E reply \in YesNoReplies :
       /\ answer' = reply
       /\ IF reply = "Yes"
          THEN \E ok \in BOOLEAN :
                 IF ok
                 THEN \* createDefaultChangelog()
                      /\ changelog' = "default"
                      /\ fileWrites' = fileWrites + 1
                      /\ pc' = "askUpdate"
                      /\ UNCHANGED <<notices, result>>
                 ELSE /\ Notify("error", "error generating changelog")
                      /\ Return
                      /\ UNCHANGED <<changelog, fileWrites>>
          ELSE /\ Return
               /\ UNCHANGED <<changelog, fileWrites, notices>>
  /\ UNCHANGED <<cmd, baseBranch, pr, cl, genCalls, titleFor, continuations, continuedWith,
                 clipboard, clipboardWrites, pagesOpened, docsOpened, prDocument, prRemote, savedEntries, relVars>>

\* showInformationMessage('Would you like to update the changelog?', 'Yes', 'No')
AskUpdate ==
  /\ cmd = "pr" /\ pc = "askUpdate"
  /\ \E reply \in YesNoReplies :
       /\ answer' = reply
       /\ IF reply = "Yes"
          THEN /\ Notify("info", "generating changelog entries")
               /\ pc' = "changelogGen"
               /\ UNCHANGED result
          ELSE /\ Return
               /\ UNCHANGED notices
  /\ UNCHANGED <<cmd, baseBranch, pr, cl, prEffects, relVars>>

\* generateChangelogFeedbackLoop: let changelogEntries = await llm.generate(...); open, show
ChangelogGen ==
  /\ cmd = "pr" /\ pc = "changelogGen"
  /\ genCalls' = genCalls + 1
  /\ \E backendOk \in BOOLEAN :
       IF Generated("changelogDraft", backendOk)
       THEN /\ cl' = EnterLoop(1, <<>>)
            /\ pc' = "clLoop"
            /\ UNCHANGED <<notices, result>>
       ELSE /\ Notify("error", "error generating changelog")
            /\ Return
            /\ UNCHANGED cl
  /\ UNCHANGED <<cmd, answer, baseBranch, pr, titleFor, continuations, continuedWith,
                 clipboard, clipboardWrites, pagesOpened, docsOpened, prDocument, prRemote, changelog,
                 savedEntries, fileWrites, relVars>>

\* where the command continues once a step of the changelog loop has run
AfterCLLoop(s) ==
  /\ pc' = CASE s.stage = "Approved" -> "saveChangelog"
             [] s.stage \in {"Cancelled", "Failed"} -> "done"
             [] OTHER -> pc
  /\ result' = IF s.stage \in {"Cancelled", "Failed"} THEN "returned" ELSE result
  /\ notices' = IF s.stage = "Failed"
                THEN Append(notices, Notice("error", "error generating changelog"))
                ELSE notices

CLLoopFrame == UNCHANGED <<cmd, answer, baseBranch, pr, prEffects, relVars>>

CLLoopIter ==
  /\ cmd = "pr" /\ pc = "clLoop" /\ cl.stage = "Iter"
  /\ cl' = LoopIter(cl)
  /\ AfterCLLoop(cl')
  /\ CLLoopFrame

CLLoopPick ==
  /\ cmd = "pr" /\ pc = "clLoop" /\ cl.stage = "Reviewing"
  /\ \E choice \in PickInputs(pr.dismissals + cl.dismissals) : cl' = CLPick(cl, choice)
  /\ AfterCLLoop(cl')
  /\ CLLoopFrame

CLLoopFeedback ==
  /\ cmd = "pr" /\ pc = "clLoop" /\ cl.stage = "FeedbackInput"
  /\ \E text \in FeedbackInputs(pr.refineCalls + cl.refineCalls) : cl' = CLFeedback(cl, text)
  /\ AfterCLLoop(cl')
  /\ CLLoopFrame

CLLoopApply ==
  /\ cmd = "pr" /\ pc = "clLoop" /\ cl.stage = "Applying"
  /\ \E backendOk \in BOOLEAN : cl' = CLApply(cl, Generated("changelogRefine", backendOk))
  /\ AfterCLLoop(cl')
  /\ CLLoopFrame

CLEditorLost ==
  /\ cmd = "pr" /\ pc = "clLoop" /\ LoopSuspended(cl)
  /\ cl.editor = "active" /\ pr.lost + cl.lost < MaxLost
  /\ \E e \in {"inactive", "closed"} : cl' = LoseEditor(cl, e)
  /\ UNCHANGED <<pc, result, notices>>
  /\ CLLoopFrame

\* SaveChangelog as it would be if the first draft is saved instead of the current entries
SaveChangelogFirstDraft ==
  /\ cmd = "pr" /\ pc = "saveChangelog"
  /\ savedEntries' = 1
  /\ \E ok \in BOOLEAN :
       IF ok
       THEN /\ changelog' = "updated"
            /\ fileWrites' = fileWrites + 1
            /\ docsOpened' = docsOpened + 1
            /\ UNCHANGED notices
       ELSE /\ Notify("error", "error generating changelog")
            /\ UNCHANGED <<changelog, fileWrites, docsOpened>>
  /\ Return
  /\ UNCHANGED <<cmd, answer, baseBranch, pr, cl, genCalls, titleFor, continuations,
                 continuedWith, clipboard, clipboardWrites, pagesOpened, prDocument,
                 prRemote, relVars>>
\* Save Changelog: updateUnreleasedChangelog(changelogEntries), close, delay, openChangelogFile()
SaveChangelog ==
  /\ cmd = "pr" /\ pc = "saveChangelog"
  /\ savedEntries' = cl.content
  /\ \E ok \in BOOLEAN :
       IF ok
       THEN /\ changelog' = "updated"
            /\ fileWrites' = fileWrites + 1
            /\ docsOpened' = docsOpened + 1
            /\ UNCHANGED notices
       ELSE /\ Notify("error", "error generating changelog")
            /\ UNCHANGED <<changelog, fileWrites, docsOpened>>
  /\ Return
  /\ UNCHANGED <<cmd, answer, baseBranch, pr, cl, genCalls, titleFor, continuations,
                 continuedWith, clipboard, clipboardWrites, pagesOpened, prDocument,
                 prRemote, relVars>>

(***************************************************************************)
(* createReleaseCommand                                                    *)
(* Stages: 1 validate repository, 2 sync with remote, 3 determine next     *)
(* version, 4 update changelog, 5 commit/tag/push, 6 hosted release.       *)
(***************************************************************************)
Op(st, op, ok) == [st |-> st, op |-> op, ok |-> ok]

\* what `git ls-remote --heads origin <branch>`, `git rev-list HEAD..origin/<branch> --count`
\* and `git remote get-url origin` have to report when they succeed
Origins == [branch : {"missing", "behind", "level"}, host : {"github", "otherHost"}]

NoOrigin == [branch |-> "none", host |-> "none"]

\* package.json as fs.readFile and JSON.parse find it
PackageFiles == {"valid", "unparsable", "missing"}

\* the working copy when the first invocation starts: CHANGELOG.md and package.json as in
\* HEAD ("clean"; later "modified" or "staged"), other files changed or not; head is the
\* version field of package.json in HEAD
WorkingCopies ==
  [changelog : {"clean"}, package : {"clean"}, other : BOOLEAN, pkgJson : PackageFiles,
   head : {"old"}]

NoWorkingCopy ==
  [changelog |-> "none", package |-> "none", other |-> FALSE, pkgJson |-> "none",
   head |-> "none"]

\* `git status --porcelain` prints something
Dirty(w) == w.other \/ w.changelog # "clean" \/ w.package # "clean"

\* FileChanged as it would be if the write is undone when the command fails
FileChangedRolledBack(w, file) == w
\* fs.writeFile gave a tracked file a new content
FileChanged(w, file) ==
  IF file = "changelog" THEN [w EXCEPT !.changelog = "modified"]
  ELSE [w EXCEPT !.package = "modified"]

\* git add package.json CHANGELOG.md
Staged(w) ==
  [w EXCEPT !.changelog = IF @ = "modified" THEN "staged" ELSE @,
            !.package = IF @ = "modified" THEN "staged" ELSE @]

\* git commit: there is something to commit when one of the two files is staged
Committable(w) == w.changelog = "staged" \/ w.package = "staged"

Committed(w, packageVersion) ==
  [w EXCEPT !.changelog = "clean", !.package = "clean",
            !.head = IF w.package = "staged" THEN packageVersion ELSE @]

\* the variables of the text functions, outside their own specification
FnsIdle ==
  /\ changelogContent = <<>>
  /\ updatedContent = <<>>
  /\ newEntry = <<>>
  /\ currentVersion = <<>>
  /\ customVersion = <<>>
  /\ nextVersion = <<>>

Started(st, op, ok) == ops' = Append(ops, Op(st, op, ok))

\* the catch block of createReleaseCommand: `Failed to create release: ${error.message}`
ReleaseFailedWith(message) ==
  /\ Notify("error", message)
  /\ Return

ReleaseFailed == ReleaseFailedWith("failed to create release")

Continue(next) == pc' = next /\ UNCHANGED <<notices, result>>

RelFrame == UNCHANGED <<cmd, answer, baseBranch, pr, cl, prEffects, fnVars, svcVars>>

\* GitOutcome as it would be if the rejection is swallowed
GitOutcomeIgnored(st, op, next) ==
  \E ok \in BOOLEAN : Started(st, op, ok) /\ Continue(next)
\* an awaited git command whose rejection propagates to the catch of createReleaseCommand
GitOutcome(st, op, next) ==
  \E ok \in BOOLEAN :
    /\ Started(st, op, ok)
    /\ IF ok THEN Continue(next) ELSE ReleaseFailed

\* validateRepositoryState: git status --porcelain
ValidateStatus ==
  /\ cmd = "release" /\ pc = "validateStatus"
  /\ \E outcome \in {IF Dirty(workingCopy) THEN "dirty" ELSE "clean", "gitFailed"} :
       /\ Started(1, "status", outcome = "clean")
       /\ CASE outcome = "clean" -> Continue("validateRemote")
            [] outcome = "dirty" ->
                 ReleaseFailedWith("failed to create release: repository has uncommitted changes")
            [] OTHER -> ReleaseFailed
  /\ UNCHANGED <<version, pkgVersion, token, relData>>
  /\ RelFrame

\* ValidateRemote as it would be if the `if (!hasRemote)` test is missing
ValidateRemoteUnchecked ==
  /\ cmd = "release" /\ pc = "validateRemote"
  /\ \E outcome \in {"origin", "noRemote", "gitFailed"} :
       /\ Started(1, "remote", outcome = "origin")
       /\ IF outcome # "gitFailed" THEN Continue("syncBranch") ELSE ReleaseFailed
  /\ UNCHANGED <<version, pkgVersion, token, relData>>
  /\ RelFrame
\* validateRepositoryState: git remote
ValidateRemote ==
  /\ cmd = "release" /\ pc = "validateRemote"
  /\ \E outcome \in {"origin", "noRemote", "gitFailed"} :
       /\ Started(1, "remote", outcome = "origin")
       /\ IF outcome = "origin" THEN Continue("syncBranch") ELSE ReleaseFailed
  /\ UNCHANGED <<version, pkgVersion, token, relData>>
  /\ RelFrame

\* syncWithRemote: const currentBranch = await getCurrentBranch()
SyncCurrentBranch ==
  /\ cmd = "release" /\ pc = "syncBranch"
  /\ GitOutcome(2, "currentBranch", "syncFetch")
  /\ UNCHANGED <<version, pkgVersion, token, relData>>
  /\ RelFrame

\* syncWithRemote: await execGitCommand('fetch origin'), before the try block
SyncFetch ==
  /\ cmd = "release" /\ pc = "syncFetch"
  /\ GitOutcome(2, "fetch", "syncLsRemote")
  /\ UNCHANGED <<version, pkgVersion, token, relData>>
  /\ RelFrame

\* syncWithRemote returned: showInformationMessage('Synced with remote')
Synced ==
  /\ Notify("info", "synced with remote")
  /\ pc' = "versionPick"
  /\ UNCHANGED result

\* syncWithRemote: git ls-remote --heads origin <branch>
SyncLsRemote ==
  /\ cmd = "release" /\ pc = "syncLsRemote"
  /\ \E outcome \in {IF origin.branch = "missing" THEN "missing" ELSE "exists", "gitFailed"} :
       /\ Started(2, "lsRemote", outcome # "gitFailed")
       /\ CASE outcome = "exists" -> Continue("syncRevList")
            [] outcome = "missing" -> Continue("syncPushNew")
            [] OTHER -> Continue("syncFallbackPush")
  /\ UNCHANGED <<version, pkgVersion, token, relData>>
  /\ RelFrame

\* SyncPushNew as it would be if the push is not followed by `return`
SyncPushNewNoReturn ==
  /\ cmd = "release" /\ pc = "syncPushNew"
  /\ \E ok \in BOOLEAN :
       /\ Started(2, "pushNew", ok)
       /\ IF ok THEN Continue("syncRevList") ELSE Continue("syncFallbackPush")
  /\ UNCHANGED <<version, pkgVersion, token, relData>>
  /\ RelFrame
\* syncWithRemote: git push -u origin <branch> for a branch the remote lacks
SyncPushNew ==
  /\ cmd = "release" /\ pc = "syncPushNew"
  /\ \E ok \in BOOLEAN :
       /\ Started(2, "pushNew", ok)
       /\ IF ok THEN Synced ELSE Continue("syncFallbackPush")
  /\ UNCHANGED <<version, pkgVersion, token, relData>>
  /\ RelFrame

\* syncWithRemote: git rev-list HEAD..origin/<branch> --count
SyncRevList ==
  /\ cmd = "release" /\ pc = "syncRevList"
  /\ \E outcome \in {IF origin.branch = "behind" THEN "behind" ELSE "notBehind", "gitFailed"} :
       /\ Started(2, "revList", outcome # "gitFailed")
       /\ CASE outcome = "behind" -> Continue("syncPull")
            [] outcome = "notBehind" -> Synced
            [] OTHER -> Continue("syncFallbackPush")
  /\ UNCHANGED <<version, pkgVersion, token, relData>>
  /\ RelFrame

\* syncWithRemote: git pull --rebase origin <branch>
SyncPull ==
  /\ cmd = "release" /\ pc = "syncPull"
  /\ \E ok \in BOOLEAN :
       /\ Started(2, "pull", ok)
       /\ IF ok THEN Synced ELSE Continue("syncFallbackPush")
  /\ UNCHANGED <<version, pkgVersion, token, relData>>
  /\ RelFrame

\* SyncFallbackPush as it would be if a failure of the fallback push is swallowed
SyncFallbackPushSwallowed ==
  /\ cmd = "release" /\ pc = "syncFallbackPush"
  /\ \E ok \in BOOLEAN :
       /\ Started(2, "fallbackPush", ok)
       /\ Synced
  /\ UNCHANGED <<version, pkgVersion, token, relData>>
  /\ RelFrame
\* syncWithRemote, catch block: git push -u origin <branch>
SyncFallbackPush ==
  /\ cmd = "release" /\ pc = "syncFallbackPush"
  /\ \E ok \in BOOLEAN :
       /\ Started(2, "fallbackPush", ok)
       /\ IF ok THEN Synced ELSE ReleaseFailed
  /\ UNCHANGED <<version, pkgVersion, token, relData>>
  /\ RelFrame

Bumps == {"major", "minor", "patch"}

\* VersionPick as it would be if a dismissed pick is taken for the patch bump
VersionPickDismissIsPatch ==
  /\ cmd = "release" /\ pc = "versionPick"
  /\ \E sel \in Bumps \cup {"custom", "dismiss"} :
       /\ answer' = sel
       /\ Started(3, "versionPick", sel # "dismiss")
       /\ IF sel = "custom"
          THEN Continue("customVersion") /\ UNCHANGED version
          ELSE /\ version' = IF sel = "dismiss" THEN "patch" ELSE sel
               /\ Notify("info", "updating changelog")
               /\ pc' = "updateChangelog"
               /\ UNCHANGED result
  /\ UNCHANGED <<cmd, baseBranch, pr, cl, prEffects, pkgVersion, token, relData, fnVars,
                 svcVars>>
\* determineNextVersion: showQuickPick(items)
VersionPick ==
  /\ cmd = "release" /\ pc = "versionPick"
  /\ \E sel \in Bumps \cup {"custom", "dismiss"} :
       /\ answer' = sel
       /\ Started(3, "versionPick", sel # "dismiss")
       /\ CASE sel = "dismiss" ->
                 \* throw new Error('Version selection cancelled')
                 ReleaseFailed /\ UNCHANGED version
            [] sel = "custom" ->
                 Continue("customVersion") /\ UNCHANGED version
            [] OTHER ->
                 /\ version' = sel
                 /\ Notify("info", "updating changelog")
                 /\ pc' = "updateChangelog"
                 /\ UNCHANGED result
  /\ UNCHANGED <<cmd, baseBranch, pr, cl, prEffects, pkgVersion, token, relData, fnVars,
                 svcVars>>

\* determineNextVersion: showInputBox for the custom version
CustomVersion ==
  /\ cmd = "release" /\ pc = "customVersion"
  /\ \E input \in {"2.5.0", "undefined"} :
       /\ Started(3, "customVersion", input = "2.5.0")
       /\ IF input = "2.5.0"
          THEN /\ version' = "custom"
               /\ Notify("info", "updating changelog")
               /\ pc' = "updateChangelog"
               /\ UNCHANGED result
          ELSE \* throw new Error('Version input cancelled')
               ReleaseFailed /\ UNCHANGED version
  /\ UNCHANGED <<pkgVersion, token, relData>>
  /\ RelFrame

\* the entry updateChangelog builds: the version heading over the unreleased body it found
Entry(v, unreleased) == [version |-> v, unreleased |-> unreleased]

NoEntry == Entry("none", "none")

\* version and annotation of a tag, tag_name and body of a hosted release
Release(v, notes) == [version |-> v, notes |-> notes]

NoRelease == Release("none", NoEntry)

RelFileFrame ==
  UNCHANGED <<cmd, answer, baseBranch, pr, cl, genCalls, titleFor, continuations,
              continuedWith, clipboard, clipboardWrites, pagesOpened, docsOpened, prDocument, prRemote,
              savedEntries, fnVars, svcVars>>

\* updateChangelog(newVersion): getChangelogContent (never throws), fs.writeFile
UpdateChangelog ==
  /\ cmd = "release" /\ pc = "updateChangelog"
  /\ \E ok \in BOOLEAN :
       /\ Started(4, "writeChangelog", ok)
       /\ IF ok
          THEN \* without the Unreleased heading the text is written back as it is
               /\ changelog' = IF changelog = "noUnreleased" THEN changelog ELSE "updated"
               /\ workingCopy' = IF changelog = "noUnreleased" THEN workingCopy
                                 ELSE FileChanged(workingCopy, "changelog")
               /\ fileWrites' = fileWrites + 1
               /\ releaseNotes' = Entry(version, changelog)
               /\ Notify("info", "creating tag and pushing changes")
               /\ pc' = "updatePackage"
               /\ UNCHANGED result
          ELSE /\ ReleaseFailed
               /\ UNCHANGED <<changelog, fileWrites, releaseNotes, workingCopy>>
  /\ UNCHANGED <<version, pkgVersion, token, origin, tagged, published, runs>>
  /\ RelFileFrame

\* createRelease: await updatePackageVersion(version); its catch only logs to the console
UpdatePackageVersion ==
  /\ cmd = "release" /\ pc = "updatePackage"
  /\ \E ok \in BOOLEAN :
       /\ ok => workingCopy.pkgJson = "valid"
       /\ Started(5, "updatePackage", ok)
       /\ IF ok
          THEN /\ pkgVersion' = version
               /\ fileWrites' = fileWrites + 1
               /\ workingCopy' = FileChanged(workingCopy, "package")
          ELSE UNCHANGED <<pkgVersion, fileWrites, workingCopy>>
  /\ Continue("gitAdd")
  /\ UNCHANGED <<version, token, changelog, origin, releaseNotes, tagged, published, runs>>
  /\ RelFileFrame

\* commitVersionBump: git add package.json CHANGELOG.md
GitAdd ==
  /\ cmd = "release" /\ pc = "gitAdd"
  /\ GitOutcome(5, "add", "gitCommit")
  \* a pathspec that matches no file is fatal
  /\ pc' = "gitCommit" => workingCopy.pkgJson # "missing"
  /\ workingCopy' = IF pc' = "gitCommit" THEN Staged(workingCopy) ELSE workingCopy
  /\ UNCHANGED <<version, pkgVersion, token, origin, releaseNotes, tagged, published, runs>>
  /\ RelFrame

\* commitVersionBump: git commit -m "chore: release <version>"
GitCommit ==
  /\ cmd = "release" /\ pc = "gitCommit"
  /\ GitOutcome(5, "commit", "gitTag")
  \* with nothing staged git commit exits with 1
  /\ pc' = "gitTag" => Committable(workingCopy)
  /\ workingCopy' = IF pc' = "gitTag" THEN Committed(workingCopy, pkgVersion) ELSE workingCopy
  /\ UNCHANGED <<version, pkgVersion, token, origin, releaseNotes, tagged, published, runs>>
  /\ RelFrame

\* createGitTag: git tag -a <version> -m '<notes>'
GitTag ==
  /\ cmd = "release" /\ pc = "gitTag"
  /\ GitOutcome(5, "tag", "gitPushTag")
  /\ tagged' = IF pc' = "gitPushTag" THEN Release(version, releaseNotes) ELSE tagged
  /\ UNCHANGED <<version, pkgVersion, token, origin, releaseNotes, published, workingCopy,
                 runs>>
  /\ RelFrame

\* createGitTag: git push origin <version>
GitPushTag ==
  /\ cmd = "release" /\ pc = "gitPushTag"
  /\ GitOutcome(5, "pushTag", "gitPushTagAgain")
  /\ UNCHANGED <<version, pkgVersion, token, relData>>
  /\ RelFrame

\* createRelease: git push origin <version>
GitPushTagAgain ==
  /\ cmd = "release" /\ pc = "gitPushTagAgain"
  /\ GitOutcome(5, "pushTag", "gitPush")
  /\ UNCHANGED <<version, pkgVersion, token, relData>>
  /\ RelFrame

\* createRelease: git push
GitPush ==
  /\ cmd = "release" /\ pc = "gitPush"
  /\ GitOutcome(5, "push", "isGithub")
  /\ UNCHANGED <<version, pkgVersion, token, relData>>
  /\ RelFrame

\* showInformationMessage('Successfully created release'), end of the try block
ReleaseSucceeded ==
  /\ Notify("info", "successfully created release")
  /\ Return

\* IsGithubRepo as it would be if every host is taken for GitHub
IsGithubRepoAnyHost ==
  /\ cmd = "release" /\ pc = "isGithub"
  /\ \E outcome \in {origin.host, "gitFailed"} :
       /\ Started(6, "remoteUrl", outcome # "gitFailed")
       /\ IF outcome = "gitFailed"
          THEN ReleaseFailed
          ELSE /\ Notify("info", "detected GitHub repository")
               /\ pc' = "githubToken"
               /\ UNCHANGED result
  /\ UNCHANGED <<version, pkgVersion, token, relData>>
  /\ RelFrame
\* isGithubRepo(): git remote get-url origin, includes('github.com')
IsGithubRepo ==
  /\ cmd = "release" /\ pc = "isGithub"
  /\ \E outcome \in {origin.host, "gitFailed"} :
       /\ Started(6, "remoteUrl", outcome # "gitFailed")
       /\ CASE outcome = "github" ->
                 /\ Notify("info", "detected GitHub repository")
                 /\ pc' = "githubToken"
                 /\ UNCHANGED result
            [] outcome = "otherHost" -> ReleaseSucceeded
            [] OTHER -> ReleaseFailed
  /\ UNCHANGED <<version, pkgVersion, token, relData>>
  /\ RelFrame

\* the commands whose run goes through createGithubRelease
Publishing == cmd \in {"release", "publish"}

\* GithubToken as it would be if the entered token is returned without being saved
GithubTokenNotSaved ==
  /\ Publishing /\ pc = "githubToken"
  /\ IF token = "stored"
     THEN /\ Continue("githubRemoteUrl")
          /\ UNCHANGED <<ops, token>>
     ELSE \E input \in {"ghp", "undefined"} :
            /\ Started(6, "tokenInput", input = "ghp")
            /\ UNCHANGED token
            /\ IF input = "ghp" THEN Continue("githubRemoteUrl") ELSE ReleaseFailed
  /\ UNCHANGED <<version, pkgVersion, relData>>
  /\ RelFrame
\* createGithubRelease: getGithubToken()
GithubToken ==
  /\ Publishing /\ pc = "githubToken"
  /\ IF token = "stored"
     THEN /\ Continue("githubRemoteUrl")
          /\ UNCHANGED <<ops, token>>
     ELSE \E input \in {"ghp", "undefined"}, saved \in BOOLEAN :
            IF input = "ghp"
            THEN \* await config.update('githubToken', token, true): may reject
                 /\ ops' = ops \o <<Op(6, "tokenInput", TRUE), Op(6, "saveToken", saved)>>
                 /\ token' = IF saved THEN "stored" ELSE token
                 /\ IF saved THEN Continue("githubRemoteUrl") ELSE ReleaseFailed
            ELSE /\ Started(6, "tokenInput", FALSE)
                 /\ ReleaseFailed
                 /\ UNCHANGED token
  /\ UNCHANGED <<version, pkgVersion, relData>>
  /\ RelFrame

\* createGithubRelease: getGithubRemoteUrl(), parseGithubUrl
GithubRemoteUrl ==
  /\ Publishing /\ pc = "githubRemoteUrl"
  /\ \E outcome \in {"parsed", "invalidUrl", "gitFailed"} :
       /\ Started(6, "remoteUrl", outcome = "parsed")
       /\ IF outcome = "parsed" THEN Continue("githubPost") ELSE ReleaseFailed
  /\ UNCHANGED <<version, pkgVersion, token, relData>>
  /\ RelFrame

\* createGithubRelease: fetch(POST /repos/<owner>/<repo>/releases), response.ok
GithubPost ==
  /\ Publishing /\ pc = "githubPost"
  /\ \E ok \in BOOLEAN :
       /\ Started(6, "githubRelease", ok)
       /\ IF ok THEN ReleaseSucceeded ELSE ReleaseFailed
  /\ published' = Release(version, releaseNotes)
  /\ UNCHANGED <<version, pkgVersion, token, origin, releaseNotes, tagged, workingCopy,
                 runs>>
  /\ RelFrame

(***************************************************************************)
(* getStagedDiff.  A path is the sequence of the pieces of its name, cut   *)
(* so that a suffix test on pieces is the suffix test on characters; a     *)
(* text is the sequence of its lines.  `git diff --cached <file>` prints   *)
(* at least one line for a file that `--name-only` lists.                  *)
(***************************************************************************)
MaxStaged == 2     \* staged files

LockSuffixes == {<<"lock", ".", "json">>, <<".", "lock">>, <<"lock", ".", "yaml">>}

Paths == {<<"package-", "lock", ".", "json">>,
          <<"yarn", ".", "lock">>,
          <<"pnpm-", "lock", ".", "yaml">>,
          <<"src/a", ".", "ts">>,
          <<"docs/", "lock", ".", "yaml", ".", "md">>}

\* stagedFiles.split('\n').filter(Boolean): what git lists, each path once
StagedLists ==
  {files \in UNION {[1..n -> Paths] : n \in 0..MaxStaged} :
     \A i, j \in 1..Len(files) : files[i] = files[j] => i = j}

\* String.prototype.endsWith
endsWith(str, suffix) ==
  /\ Len(suffix) <= Len(str)
  /\ SubSeq(str, Len(str) - Len(suffix) + 1, Len(str)) = suffix

\* isLockFile as it would be if no name pattern is recognised
isLockFileNever(file) == FALSE
\* file.endsWith('lock.json') || file.endsWith('.lock') || file.endsWith('lock.yaml')
isLockFile(file) == \E suffix \in LockSuffixes : endsWith(file, suffix)

\* `${file}: [Lock file changes detected]`
PlaceholderLine(file) == [file |-> file, text |-> "[Lock file changes detected]"]

\* the trimmed output of `git diff --cached <file>`
FileDiff(file) == <<[file |-> file, text |-> "diff --git"], [file |-> file, text |-> "@@ hunk"]>>

\* one execGitCommand call: the command line and whether git exited with 0
GitCommand(name, file, ok) == [name |-> name, file |-> file, ok |-> ok]

Rejected(command) == [command EXCEPT !.ok = FALSE]

\* the git commands of one getStagedDiff call, in the order they are awaited
RECURSIVE StagedDiffCommands(_)
StagedDiffCommands(files) ==
  IF files = <<>>
  THEN <<>>
  ELSE (IF isLockFile(Head(files)) THEN <<>> ELSE <<GitCommand("diff --cached", Head(files), TRUE)>>)
       \o StagedDiffCommands(Tail(files))

\* getStagedDiff: the for loop over the listed files, then trim() (which takes the last
\* line break away and nothing else, no piece being blank)
RECURSIVE getStagedDiff(_)
getStagedDiff(files) ==
  IF files = <<>>
  THEN <<>>
  ELSE (IF isLockFile(Head(files)) THEN <<PlaceholderLine(Head(files))>> ELSE FileDiff(Head(files)))
       \o getStagedDiff(Tail(files))

(***************************************************************************)
(* generateFullCommitMessage and generateSimpleCommitMessage               *)
(***************************************************************************)
CommitCommands == {"commitFull", "commitSimple"}

\* the catch block of both commands
CommitFailed ==
  /\ Notify("error", "error generating commit message")
  /\ Return

\* writeCommitMessageToSCM: nothing is written when the Git extension has no repository
writeCommitMessageToSCM(box, message) ==
  IF box.repo = "present"
  THEN [box EXCEPT !.value = message, !.writes = @ + 1]
  ELSE box

\* const diff = await getStagedDiff(); the failAt-th git command rejects (0: none does)
CommitStagedDiff ==
  /\ cmd \in CommitCommands /\ pc = "getStagedDiff"
  /\ LET commands == <<GitCommand("diff --cached --name-only", <<>>, TRUE)>>
                     \o StagedDiffCommands(staged)
     IN \E failAt \in 0..Len(commands) :
          IF failAt = 0
          THEN /\ gitLog' = gitLog \o commands
               /\ diffOutput' = getStagedDiff(staged)
               /\ pc' = "getStagedFiles"
               /\ UNCHANGED <<notices, result>>
          ELSE /\ gitLog' = gitLog \o SubSeq(commands, 1, failAt - 1)
                                  \o <<Rejected(commands[failAt])>>
               /\ CommitFailed
               /\ UNCHANGED diffOutput
  /\ UNCHANGED <<cmd, answer, baseBranch, pr, cl, prEffects, ops, version, pkgVersion, token,
                 relData, fnVars, settings, llmCalls, scm, staged, ctxVars, taskVars>>

\* CommitStagedFiles as it would be if the diff is not checked for being empty
CommitStagedFilesUnchecked ==
  /\ cmd \in CommitCommands /\ pc = "getStagedFiles"
  /\ \E ok \in BOOLEAN :
       /\ gitLog' = Append(gitLog, GitCommand("diff --cached --name-only", <<>>, ok))
       /\ IF ok
          THEN /\ Notify("info", "generating commit message")
               /\ pc' = "generate"
               /\ UNCHANGED result
          ELSE CommitFailed
  /\ UNCHANGED <<cmd, answer, baseBranch, pr, cl, prEffects, ops, version, pkgVersion, token,
                 relData, fnVars, settings, llmCalls, scm, staged, diffOutput, ctxVars, taskVars>>
\* const files = await getStagedFiles(); if (!diff) { warning; return }; the 'Generating' notice
CommitStagedFiles ==
  /\ cmd \in CommitCommands /\ pc = "getStagedFiles"
  /\ \E ok \in BOOLEAN :
       /\ gitLog' = Append(gitLog, GitCommand("diff --cached --name-only", <<>>, ok))
       /\ CASE ~ok -> CommitFailed
            [] ok /\ diffOutput = <<>> ->
                 /\ Notify("warning", "no staged changes found")
                 /\ Return
            [] OTHER ->
                 /\ Notify("info", "generating commit message")
                 /\ pc' = "generate"
                 /\ UNCHANGED result
  /\ UNCHANGED <<cmd, answer, baseBranch, pr, cl, prEffects, ops, version, pkgVersion, token,
                 relData, fnVars, settings, llmCalls, scm, staged, diffOutput, ctxVars, taskVars>>

\* new LLMService(), await llmService.generate(...), writeCommitMessageToSCM, the success notice
CommitGenerate ==
  /\ cmd \in CommitCommands /\ pc = "generate"
  /\ \E gitOk \in BOOLEAN, backendOk \in BOOLEAN, body \in BOOLEAN :
       LET call == generate(cmd, settings, gitOk, backendOk)
           message == IF cmd = "commitFull" /\ body
                      THEN "type: description, body"
                      ELSE "type: description"
       IN /\ llmCalls' = Append(llmCalls, call)
          /\ gitLog' = IF call.gitCalls = 1
                       THEN Append(gitLog, GitCommand("log -1", <<>>, gitOk))
                       ELSE gitLog
          /\ IF call.outcome = "ok"
             THEN /\ scm' = writeCommitMessageToSCM(scm, message)
                  /\ Notify("info", "commit message generated successfully")
                  /\ Return
             ELSE /\ CommitFailed
                  /\ UNCHANGED scm
  /\ UNCHANGED <<cmd, answer, baseBranch, pr, cl, prEffects, ops, version, pkgVersion, token,
                 relData, fnVars, settings, staged, diffOutput, ctxVars, taskVars>>

CommitNext == CommitStagedDiff \/ CommitStagedFiles \/ CommitGenerate

ReleaseNext ==
  \/ ValidateStatus \/ ValidateRemote
  \/ SyncCurrentBranch \/ SyncFetch \/ SyncLsRemote \/ SyncPushNew \/ SyncRevList
  \/ SyncPull \/ SyncFallbackPush
  \/ VersionPick \/ CustomVersion
  \/ UpdateChangelog
  \/ UpdatePackageVersion \/ GitAdd \/ GitCommit \/ GitTag \/ GitPushTag
  \/ GitPushTagAgain \/ GitPush
  \/ IsGithubRepo \/ GithubToken \/ GithubRemoteUrl \/ GithubPost

(***************************************************************************)
(* createReleaseCommand run again.  The files, the index and the stored    *)
(* token stay as the earlier invocation left them; what belongs to one     *)
(* invocation starts afresh, and "old" again names the version that        *)
(* package.json has when the invocation starts.                            *)
(***************************************************************************)
MaxRuns == 2       \* createReleaseCommand invocations, one after the other

\* the user runs the command again once the earlier invocation has ended
RunAgain ==
  /\ cmd = "release" /\ pc = "done" /\ runs < MaxRuns
  /\ runs' = runs + 1
  /\ pc' = "validateStatus"
  /\ answer' = "none"
  /\ notices' = <<>>
  /\ result' = "running"
  /\ ops' = <<>>
  /\ version' = "none"
  /\ pkgVersion' = "old"
  /\ fileWrites' = 0
  /\ releaseNotes' = NoEntry
  /\ tagged' = NoRelease
  /\ published' = NoRelease
  \* the file that was written has its Unreleased heading
  /\ changelog' = IF changelog = "updated" THEN "present" ELSE changelog
  /\ workingCopy' = [workingCopy EXCEPT !.head = IF workingCopy.package = "clean"
                                                 THEN "old" ELSE "behind"]
  \* the pushes of the earlier invocation, or of other people, may have moved the branch
  /\ \E o \in Origins : o.host = origin.host /\ origin' = o
  /\ UNCHANGED <<cmd, baseBranch, pr, cl, genCalls, titleFor, continuations, continuedWith,
                 clipboard, clipboardWrites, pagesOpened, docsOpened, prDocument, prRemote,
                 savedEntries, token, fnVars, svcVars>>

PRNext ==
  \/ SelectBaseBranch \/ GatherContext \/ InitialGen
  \/ PRLoopIter \/ PRLoopPick \/ PRLoopFeedback \/ PRLoopApply \/ PRLoopRetry \/ PREditorLost
  \/ TitleGen \/ OpenPRCreationPage
  \/ ChangelogCheck \/ AskCreate \/ AskUpdate \/ ChangelogGen
  \/ CLLoopIter \/ CLLoopPick \/ CLLoopFeedback \/ CLLoopApply \/ CLEditorLost
  \/ SaveChangelog

Init ==
  /\ cmd \in {"pr", "release"} \cup CommitCommands
  /\ pc = CASE cmd = "pr" -> "selectBranch"
            [] cmd = "release" -> "validateStatus"
            [] OTHER -> "getStagedDiff"
  /\ answer = "none"
  /\ baseBranch = "none"
  /\ pr = NoLoop
  /\ cl = NoLoop
  /\ genCalls = 0
  /\ titleFor = 0
  /\ continuations = 0
  /\ continuedWith = 0
  /\ clipboard = 0
  /\ clipboardWrites = 0
  /\ pagesOpened = 0
  /\ docsOpened = 0
  /\ prDocument = 0
  /\ prRemote = NoRemote
  /\ changelog \in CASE cmd \in CommitCommands -> {"present"}
                     [] cmd = "release" -> {"absent", "present", "noUnreleased"}
                     [] OTHER -> {"absent", "present"}
  /\ savedEntries = 0
  /\ fileWrites = 0
  /\ notices = <<>>
  /\ result = "running"
  /\ ops = <<>>
  /\ version = "none"
  /\ pkgVersion = "old"
  /\ token \in IF cmd = "release" THEN {"none", "stored"} ELSE {"none"}
  /\ origin \in IF cmd = "release" THEN Origins ELSE {NoOrigin}
  /\ releaseNotes = NoEntry
  /\ tagged = NoRelease
  /\ published = NoRelease
  /\ workingCopy \in IF cmd = "release" THEN WorkingCopies ELSE {NoWorkingCopy}
  /\ runs = IF cmd = "release" THEN 1 ELSE 0
  /\ FnsIdle
  /\ settings \in CASE cmd = "pr" -> {DefaultSettings(key) : key \in ApiKeys}
                    [] cmd = "release" -> {DefaultSettings("sk-1")}
                    [] OTHER -> Settings
  /\ llmCalls = <<>>
  /\ scm \in IF cmd \in CommitCommands
             THEN {[repo |-> repo, value |-> "typed by the user", writes |-> 0] :
                     repo \in {"present", "absent"}}
             ELSE {NoScm}
  /\ staged \in IF cmd \in CommitCommands THEN StagedLists ELSE {<<>>}
  /\ gitLog = <<>>
  /\ diffOutput = <<>>
  /\ CtxIdle
  /\ tasks = NoTasks
  /\ subprocesses = {}

Next == PRNext \/ ReleaseNext \/ CommitNext

Spec == Init /\ [][Next]_vars

\* createReleaseCommand, invoked up to MaxRuns times on the same working copy
InitRerun == Init /\ cmd = "release"

NextRerun == ReleaseNext \/ RunAgain

SpecRerun == InitRerun /\ [][NextRerun]_vars

(***************************************************************************)
(* generatePRDescription with a user who answers every prompt and who, at  *)
(* the choice prompts of a loop, does not pick Improve (or dismiss) for    *)
(* ever.                                                                   *)
(***************************************************************************)
\* Submit or Cancel picked at the choice prompt of a loop
PRPickEnds == PRLoopPick /\ pr'.choice \in {"Submit", "Cancel"}

CLPickEnds == CLLoopPick /\ cl'.choice \in {"Submit", "Cancel"}

InitFair == Init /\ cmd = "pr"

\* awaited calls settle and prompts are answered (WF); a choice prompt that comes
\* up again and again is answered with Submit or Cancel at some point (SF)
Fairness == WF_vars(PRNext) /\ SF_vars(PRPickEnds) /\ SF_vars(CLPickEnds)

SpecFair == InitFair /\ [][PRNext]_vars /\ Fairness

(***************************************************************************)
(* The two loops side by side: both start from a first draft and receive   *)
(* the same user replies and the same generation outcomes.                 *)
(***************************************************************************)
StageInputs(s) ==
  CASE s.stage = "Iter" -> {"next"}
    [] s.stage = "Reviewing" -> PickInputs(s.dismissals)
    [] s.stage = "FeedbackInput" -> FeedbackInputs(s.refineCalls)
    [] s.stage = "Applying" -> {"ok", "failed"}
    [] s.stage = "RetryPrompt" -> RetryReplies
    [] OTHER -> {}

PRStep(s, in) ==
  CASE s.stage = "Iter" -> LoopIter(s)
    [] s.stage = "Reviewing" -> PRPick(s, in)
    [] s.stage = "FeedbackInput" -> PRFeedback(s, in)
    [] s.stage = "Applying" -> PRApply(s, in = "ok")
    [] s.stage = "RetryPrompt" -> PRRetry(s, in)
    [] OTHER -> s

CLStep(s, in) ==
  CASE s.stage = "Iter" -> LoopIter(s)
    [] s.stage = "Reviewing" -> CLPick(s, in)
    [] s.stage = "FeedbackInput" -> CLFeedback(s, in)
    [] s.stage = "Applying" -> CLApply(s, in = "ok")
    [] OTHER -> s

LoopsFrame ==
  UNCHANGED <<cmd, pc, answer, baseBranch, prEffects, notices, result, relVars>>

\* one input, given to both loops
BothStep ==
  /\ cmd = "loops" /\ pr.stage = cl.stage
  /\ \E in \in StageInputs(pr) :
       /\ pr' = PRStep(pr, in)
       /\ cl' = CLStep(cl, in)
  /\ LoopsFrame

\* the review editor of both loops is deactivated or closed
BothLoseEditor ==
  /\ cmd = "loops" /\ pr.stage = cl.stage /\ LoopSuspended(pr)
  /\ pr.editor = "active" /\ cl.editor = "active"
  /\ pr.lost < MaxLost
  /\ \E e \in {"inactive", "closed"} :
       /\ pr' = LoseEditor(pr, e)
       /\ cl' = LoseEditor(cl, e)
  /\ LoopsFrame

\* once the loops have parted, the PR loop goes on alone
PRAlone ==
  /\ cmd = "loops" /\ pr.stage # cl.stage
  /\ \E in \in StageInputs(pr) : pr' = PRStep(pr, in)
  /\ UNCHANGED cl
  /\ LoopsFrame

InitLoops ==
  /\ cmd = "loops"
  /\ pc = "lockstep"
  /\ answer = "none"
  /\ baseBranch = "main"
  /\ pr = EnterLoop(1, <<>>)
  /\ cl = EnterLoop(1, <<>>)
  /\ genCalls = 0
  /\ titleFor = 0
  /\ continuations = 0
  /\ continuedWith = 0
  /\ clipboard = 0
  /\ clipboardWrites = 0
  /\ pagesOpened = 0
  /\ docsOpened = 0
  /\ prDocument = 0
  /\ prRemote = NoRemote
  /\ changelog = "present"
  /\ savedEntries = 0
  /\ fileWrites = 0
  /\ notices = <<>>
  /\ result = "running"
  /\ ops = <<>>
  /\ version = "none"
  /\ pkgVersion = "old"
  /\ token = "none"
  /\ origin = NoOrigin
  /\ releaseNotes = NoEntry
  /\ tagged = NoRelease
  /\ published = NoRelease
  /\ workingCopy = NoWorkingCopy
  /\ runs = 0
  /\ FnsIdle
  /\ settings = DefaultSettings("sk-1")
  /\ SvcIdle

NextLoops == BothStep \/ BothLoseEditor \/ PRAlone

SpecLoops == InitLoops /\ [][NextLoops]_vars

(***************************************************************************)
(* updateChangelog as a function of the text of CHANGELOG.md.              *)
(* A text is the sequence of its lines (the text split at "\n"): the empty *)
(* text is <<"">>, a text that ends with a newline has "" as last line.    *)
(* The lines are taken from a small alphabet; headings are whole lines.    *)
(***************************************************************************)
MaxLines == 5      \* lines of CHANGELOG.md

UnreleasedHeading == "## [Unreleased]"
OldHeadings == {"## [1.0.0] - 2024-01-01", "## [0.9.0] - 2023-12-01"}
DollarLine == "- costs $$5"
PlainLines == {"", "# Changelog", "- added x"}
Lines == PlainLines \cup {DollarLine, UnreleasedHeading} \cup OldHeadings

NewVersions == {"v1.1.0", "v2.0.0"}

\* `## [${newVersion}] - ${date}`
VersionHeading(v) == IF v = "v1.1.0" THEN "## [v1.1.0] - DATE" ELSE "## [v2.0.0] - DATE"

\* the line starts with "## ["
IsHeading(line) ==
  line \in {UnreleasedHeading} \cup OldHeadings \cup {VersionHeading(v) : v \in NewVersions}

Texts == UNION {[1..n -> Lines] : n \in 1..MaxLines}

NoFile == <<>>

\* DEFAULT_CHANGELOG: the preamble and an empty Unreleased heading
DefaultChangelog == <<"# Changelog", "", UnreleasedHeading, "">>

\* getChangelogContent: the text of the file, DEFAULT_CHANGELOG when it cannot be read
getChangelogContent(file) == IF file = NoFile THEN DefaultChangelog ELSE file

\* first line that is the Unreleased heading (0: none)
FirstUnreleased(text) ==
  IF \E i \in 1..Len(text) : text[i] = UnreleasedHeading
  THEN CHOOSE i \in 1..Len(text) :
         /\ text[i] = UnreleasedHeading
         /\ \A j \in 1..(i - 1) : text[j] # UnreleasedHeading
  ELSE 0

\* [\s\S]*?(?=\n## \[|$) started in line `from`: the lazy match ends at the
\* first end of line that is followed by a "## [" line or by the end of the text
MatchEnd(text, from) ==
  CHOOSE k \in from..Len(text) :
    /\ k = Len(text) \/ IsHeading(text[k + 1])
    /\ \A j \in from..(k - 1) : ~IsHeading(text[j + 1])

\* String.prototype.trim on a group of lines: leading and trailing blank lines go
trim(group) ==
  LET inked == {i \in 1..Len(group) : group[i] # ""}
  IN  IF inked = {}
      THEN <<"">>
      ELSE SubSeq(group, CHOOSE i \in inked : \A j \in inked : i <= j,
                         CHOOSE i \in inked : \A j \in inked : j <= i)

\* changelogContent.match(/## \[Unreleased\]\n([\s\S]*?)(?=\n## \[|$)/), then
\* unreleasedMatch ? unreleasedMatch[1].trim() : ''
\* The heading must be followed by "\n"; group 1 starts in the next line and
\* takes that line even if it is itself a "## [" line.
unreleasedContent(text) ==
  LET i == FirstUnreleased(text)
  IN  IF i = 0 \/ i = Len(text)
      THEN <<"">>
      ELSE trim(SubSeq(text, i + 1, MatchEnd(text, i + 1)))

\* `\n## [${newVersion}] - ${date}\n\n${unreleasedContent}\n`
NewEntry(text, v) == <<"", VersionHeading(v), "">> \o unreleasedContent(text) \o <<"">>

\* String.prototype.replace with a string as replacement: "$$" in it stands for "$"
ReplacementPatterns(line) == IF line = DollarLine THEN "- costs $5" ELSE line

\* the replacement `## [Unreleased]\n\n${newEntry}` after pattern substitution
Replacement(text, v) ==
  LET entry == NewEntry(text, v)
  IN  <<UnreleasedHeading, "">> \o [i \in 1..Len(entry) |-> ReplacementPatterns(entry[i])]

\* updateChangelog as it would be if a text without the heading gets the new section at its end
updateChangelogAppends(file, v) ==
  LET text == getChangelogContent(file)
      i == FirstUnreleased(text)
  IN  IF i = 0
      THEN text \o NewEntry(text, v)
      ELSE SubSeq(text, 1, i - 1) \o Replacement(text, v)
             \o SubSeq(text, MatchEnd(text, i) + 1, Len(text))
\* changelogContent.replace(/## \[Unreleased\][\s\S]*?(?=\n## \[|$)/, ...):
\* the heading line and the lines up to the next "## [" line are replaced;
\* a text without the heading is returned as it is
updateChangelog(file, v) ==
  LET text == getChangelogContent(file)
      i == FirstUnreleased(text)
  IN  IF i = 0
      THEN text
      ELSE SubSeq(text, 1, i - 1) \o Replacement(text, v)
             \o SubSeq(text, MatchEnd(text, i) + 1, Len(text))

\* updateChangelog(newVersion) applied to one text
UpdateChangelogText ==
  /\ cmd = "updateChangelog" /\ pc = "updateChangelog"
  /\ updatedContent' = updateChangelog(changelogContent, version)
  /\ newEntry' = NewEntry(getChangelogContent(changelogContent), version)
  /\ fileWrites' = fileWrites + 1
  /\ Return
  /\ UNCHANGED <<cmd, answer, baseBranch, pr, cl, genCalls, titleFor, continuations,
                 continuedWith, clipboard, clipboardWrites, pagesOpened, docsOpened, prDocument, prRemote,
                 changelog, savedEntries, notices, ops, version, pkgVersion, token,
                 relData, changelogContent, currentVersion, customVersion, nextVersion,
                 svcVars>>

(***************************************************************************)
(* determineNextVersion and bumpVersion on version texts.  A version text  *)
(* is the sequence of its characters; "-beta" is typed as one unit.        *)
(***************************************************************************)
MaxComponent == 1  \* largest component of the version in package.json
MaxTyped == 6      \* characters typed into the custom-version input box

DigitChars == <<"0", "1", "2", "3", "4", "5", "6", "7", "8", "9">>

IsDigit(c) == \E n \in 1..10 : DigitChars[n] = c

DigitValue(c) == (CHOOSE n \in 1..10 : DigitChars[n] = c) - 1

\* Number(text) for a text of decimal digits (Number('') is 0)
RECURSIVE Number(_)
Number(text) ==
  IF text = <<>>
  THEN 0
  ELSE Number(SubSeq(text, 1, Len(text) - 1)) * 10 + DigitValue(text[Len(text)])

\* `${n}` for a non-negative integer
RECURSIVE NumberToString(_)
NumberToString(n) ==
  IF n < 10
  THEN <<DigitChars[n + 1]>>
  ELSE NumberToString(n \div 10) \o <<DigitChars[(n % 10) + 1]>>

\* text.split('.')
RECURSIVE split(_)
split(text) ==
  IF \A i \in 1..Len(text) : text[i] # "."
  THEN <<text>>
  ELSE LET d == CHOOSE i \in 1..Len(text) :
                  text[i] = "." /\ \A j \in 1..(i - 1) : text[j] # "."
       IN  <<SubSeq(text, 1, d - 1)>> \o split(SubSeq(text, d + 1, Len(text)))

\* text.replace('v', ''): the first "v" is removed
replaceV(text) ==
  IF \A i \in 1..Len(text) : text[i] # "v"
  THEN text
  ELSE LET d == CHOOSE i \in 1..Len(text) :
                  text[i] = "v" /\ \A j \in 1..(i - 1) : text[j] # "v"
       IN  SubSeq(text, 1, d - 1) \o SubSeq(text, d + 1, Len(text))

\* `${a}.${b}.${c}`
Dotted(a, b, c) ==
  NumberToString(a) \o <<".">> \o NumberToString(b) \o <<".">> \o NumberToString(c)

\* bumpVersion as it would be if the lower components are kept
bumpVersionKeepsLower(text, type) ==
  LET parts == split(replaceV(text))
      major == Number(parts[1])
      minor == Number(parts[2])
      patch == Number(parts[3])
  IN  CASE type = "major" -> Dotted(major + 1, minor, patch)
        [] type = "minor" -> Dotted(major, minor + 1, patch)
        [] OTHER -> Dotted(major, minor, patch + 1)
\* bumpVersion(version, type), for a version of three digit groups
bumpVersion(text, type) ==
  LET parts == split(replaceV(text))
      major == Number(parts[1])
      minor == Number(parts[2])
      patch == Number(parts[3])
  IN  CASE type = "major" -> Dotted(major + 1, 0, 0)
        [] type = "minor" -> Dotted(major, minor + 1, 0)
        [] OTHER -> Dotted(major, minor, patch + 1)

\* validateInput as it would be if the pattern is not anchored at the end
validateInputPrefix(value) ==
  \E n \in 1..Len(value) :
    LET parts == split(SubSeq(value, 1, n))
    IN  /\ Len(parts) = 3
        /\ \A k \in 1..3 : parts[k] # <<>> /\ \A i \in 1..Len(parts[k]) : IsDigit(parts[k][i])
\* validateInput: /^\d+\.\d+\.\d+$/.test(value) (TRUE: the input box accepts the value)
validateInput(value) ==
  LET parts == split(value)
  IN  /\ Len(parts) = 3
      /\ \A k \in 1..3 : parts[k] # <<>> /\ \A i \in 1..Len(parts[k]) : IsDigit(parts[k][i])

\* the versions package.json can hold in this model, and the texts the user can type
PackageVersions == {Dotted(a, b, c) : a, b, c \in 0..MaxComponent}
TypedChars == {"0", "2", "5", ".", "-beta"}
TypedTexts == UNION {[1..n -> TypedChars] : n \in 1..MaxTyped}

FnFrame ==
  UNCHANGED <<cmd, baseBranch, pr, cl, prEffects, ops, version, pkgVersion, token, relData,
              changelogContent, updatedContent, newEntry, svcVars>>

\* determineNextVersion: let currentVersion = '0.0.0', then the try block reading package.json
ReadPackageJson ==
  /\ cmd = "determineNextVersion" /\ pc = "readPackageJson"
  /\ currentVersion' = IF pkgVersion = <<>> THEN <<"0", ".", "0", ".", "0">> ELSE pkgVersion
  /\ pc' = "selectBump"
  /\ UNCHANGED <<answer, notices, result, customVersion, nextVersion>>
  /\ FnFrame

\* determineNextVersion: showQuickPick(items), `if (!selected) throw`, the bump branches
SelectBump ==
  /\ cmd = "determineNextVersion" /\ pc = "selectBump"
  /\ \E sel \in Bumps \cup {"custom", "dismiss"} :
       /\ answer' = sel
       /\ CASE sel = "dismiss" ->
                 /\ pc' = "done" /\ result' = "thrown"
                 /\ UNCHANGED nextVersion
            [] sel = "custom" ->
                 /\ pc' = "customInput"
                 /\ UNCHANGED <<result, nextVersion>>
            [] OTHER ->
                 /\ nextVersion' = <<"v">> \o bumpVersion(currentVersion, sel)
                 /\ Return
  /\ UNCHANGED <<notices, currentVersion, customVersion>>
  /\ FnFrame

\* the user types a text into the empty input box; validateInput runs on the change
TypeCustomVersion ==
  /\ cmd = "determineNextVersion" /\ pc = "customInput" /\ customVersion = <<>>
  /\ \E text \in TypedTexts :
       /\ customVersion' = text
       /\ notices' = IF validateInput(text)
                     THEN <<>>
                     ELSE <<Notice("validation", "Please enter a valid semver")>>
  /\ UNCHANGED <<pc, answer, result, currentVersion, nextVersion>>
  /\ FnFrame

\* the user empties the input box again
ClearCustomVersion ==
  /\ cmd = "determineNextVersion" /\ pc = "customInput" /\ customVersion # <<>>
  /\ customVersion' = <<>>
  /\ notices' = <<Notice("validation", "Please enter a valid semver")>>
  /\ UNCHANGED <<pc, answer, result, currentVersion, nextVersion>>
  /\ FnFrame

\* Enter in the input box: showInputBox resolves only when validateInput returned null;
\* then `if (!customVersion) throw`, `return v${customVersion}`
AcceptCustomVersion ==
  /\ cmd = "determineNextVersion" /\ pc = "customInput"
  /\ validateInput(customVersion)
  /\ IF customVersion = <<>>
     THEN pc' = "done" /\ result' = "thrown" /\ UNCHANGED nextVersion
     ELSE nextVersion' = <<"v">> \o customVersion /\ Return
  /\ UNCHANGED <<answer, notices, currentVersion, customVersion>>
  /\ FnFrame

\* Escape in the input box: the box closes, showInputBox resolves to undefined
\* whatever was typed, `throw new Error('Version input cancelled')`
DismissCustomVersion ==
  /\ cmd = "determineNextVersion" /\ pc = "customInput"
  /\ pc' = "done" /\ result' = "thrown"
  /\ customVersion' = <<>>
  /\ notices' = <<>>
  /\ UNCHANGED <<answer, currentVersion, nextVersion>>
  /\ FnFrame

InitFns ==
  /\ cmd \in {"updateChangelog", "determineNextVersion"}
  /\ pc = IF cmd = "updateChangelog" THEN "updateChangelog" ELSE "readPackageJson"
  /\ answer = "none"
  /\ baseBranch = "none"
  /\ pr = NoLoop
  /\ cl = NoLoop
  /\ genCalls = 0
  /\ titleFor = 0
  /\ continuations = 0
  /\ continuedWith = 0
  /\ clipboard = 0
  /\ clipboardWrites = 0
  /\ pagesOpened = 0
  /\ docsOpened = 0
  /\ prDocument = 0
  /\ prRemote = NoRemote
  /\ changelog = "none"
  /\ savedEntries = 0
  /\ fileWrites = 0
  /\ notices = <<>>
  /\ result = "running"
  /\ ops = <<>>
  /\ version \in IF cmd = "updateChangelog" THEN NewVersions ELSE {"none"}
  /\ pkgVersion \in IF cmd = "updateChangelog" THEN {<<>>} ELSE PackageVersions \cup {<<>>}
  /\ token = "none"
  /\ origin = NoOrigin
  /\ releaseNotes = NoEntry
  /\ tagged = NoRelease
  /\ published = NoRelease
  /\ workingCopy = NoWorkingCopy
  /\ runs = 0
  /\ changelogContent \in IF cmd = "updateChangelog" THEN Texts \cup {NoFile} ELSE {<<>>}
  /\ updatedContent = <<>>
  /\ newEntry = <<>>
  /\ currentVersion = <<>>
  /\ customVersion = <<>>
  /\ nextVersion = <<>>
  /\ settings = DefaultSettings("sk-1")
  /\ SvcIdle

NextFns ==
  \/ UpdateChangelogText
  \/ ReadPackageJson \/ SelectBump
  \/ TypeCustomVersion \/ ClearCustomVersion \/ AcceptCustomVersion \/ DismissCustomVersion

SpecFns == InitFns /\ [][NextFns]_vars

(***************************************************************************)
(* Service functions followed step by step: createGithubRelease called by  *)
(* one release run after another, the context gathering at the start of    *)
(* generatePRDescription (getDetailedBranchDiff, getPRTemplate, the choice *)
(* of the prompt), and the generate calls of one LLMService instance.      *)
(***************************************************************************)
MaxPublications == 2   \* createGithubRelease calls in a row

Publications == Cardinality({i \in 1..Len(ops) : ops[i].op = "createGithubRelease"})

\* a createReleaseCommand run reaches `await createGithubRelease(newVersion, releaseNotes)`
CreateGithubRelease ==
  /\ cmd = "publish" /\ pc \in {"idle", "done"}
  /\ Publications < MaxPublications
  /\ Started(6, "createGithubRelease", TRUE)
  /\ pc' = "githubToken"
  /\ result' = "running"
  /\ UNCHANGED <<notices, version, pkgVersion, token, relData>>
  /\ RelFrame

PublishNext == CreateGithubRelease \/ GithubToken \/ GithubRemoteUrl \/ GithubPost

(***************************************************************************)
(* getDetailedBranchDiff.  Commits are numbered in the order they were     *)
(* made; every commit but the first has one older parent; the base branch  *)
(* and HEAD each point to a commit.                                        *)
(***************************************************************************)
MaxCommits == 3    \* commits in the repository

Graphs ==
  UNION {[parent : {p \in [1..n -> 0..(n - 1)] :
                      p[1] = 0 /\ \A c \in 2..n : p[c] \in 1..(c - 1)},
          base : 1..n,
          head : 1..n] : n \in 1..MaxCommits}

\* the commits reachable from commit c
RECURSIVE Reachable(_, _)
Reachable(g, c) == IF c = 0 THEN {} ELSE {c} \cup Reachable(g, g.parent[c])

\* the revision range <baseBranch>...HEAD: reachable from either tip, not from both
ThreeDotRange(g) ==
  (Reachable(g, g.base) \cup Reachable(g, g.head))
    \ (Reachable(g, g.base) \cap Reachable(g, g.head))

\* the order in which git log prints a set of commits
RECURSIVE NewestFirst(_)
NewestFirst(commits) ==
  IF commits = {}
  THEN <<>>
  ELSE LET newest == CHOOSE c \in commits : \A d \in commits : d <= c
       IN  <<newest>> \o NewestFirst(commits \ {newest})

\* commitHashes.split('\n').filter(Boolean)
CommitHashes(g) == NewestFirst(ThreeDotRange(g))

\* a commit hash: its first four characters and the rest
Hash(c) == <<c, "rest">>

\* hash.substring(0, 4)
substring04(hash) == <<hash[1]>>

\* the entry pushed for one commit: shortened hash, trimmed message, trimmed diff
BranchDiffEntry(c) == [hash |-> substring04(Hash(c)), message |-> c, diff |-> c]

\* getDetailedBranchDiff(baseBranch): the returned array
getDetailedBranchDiff(g) ==
  [i \in 1..Len(CommitHashes(g)) |-> BranchDiffEntry(CommitHashes(g)[i])]

\* the git commands of one getDetailedBranchDiff call, in the order they are awaited
RECURSIVE PerCommitCommands(_)
PerCommitCommands(hashes) ==
  IF hashes = <<>>
  THEN <<>>
  ELSE <<GitCommand("log --pretty=format:%B -n 1", Hash(Head(hashes)), TRUE),
         GitCommand("diff ^!", Hash(Head(hashes)), TRUE)>>
       \o PerCommitCommands(Tail(hashes))

BranchDiffCommands(g) ==
  <<GitCommand("log base...HEAD --format=%H", <<>>, TRUE)>> \o PerCommitCommands(CommitHashes(g))

CtxFrame ==
  UNCHANGED <<cmd, answer, baseBranch, pr, cl, prEffects, ops, version, pkgVersion, token,
              relData, fnVars, settings, llmCalls, scm, staged, diffOutput, graph,
              templateFiles, taskVars>>

\* const diff = await getDetailedBranchDiff(baseBranch): above the try block of the command;
\* the failAt-th git command rejects (0: none does)
PRContextDiff ==
  /\ cmd = "prContext" /\ pc = "getDetailedBranchDiff"
  /\ \E failAt \in 0..Len(BranchDiffCommands(graph)) :
       IF failAt = 0
       THEN /\ gitLog' = gitLog \o BranchDiffCommands(graph)
            /\ branchDiff' = getDetailedBranchDiff(graph)
            /\ pc' = "getPRTemplate"
            /\ UNCHANGED result
       ELSE /\ gitLog' = gitLog \o SubSeq(BranchDiffCommands(graph), 1, failAt - 1)
                               \o <<Rejected(BranchDiffCommands(graph)[failAt])>>
            /\ pc' = "done"
            /\ result' = "unhandled"
            /\ UNCHANGED branchDiff
  /\ UNCHANGED <<notices, template, prompt>>
  /\ CtxFrame

(***************************************************************************)
(* getPRTemplate                                                           *)
(***************************************************************************)
TemplateFiles ==
  [rootOk : BOOLEAN, customPath : {"", "docs/pr.md"},
   custom : {"readable", "unreadable"}, default : {"readable", "unreadable"}]

Found(text, warned) == [template |-> text, warned |-> warned]

\* getPRTemplate as it would be if the default location is tried before the configured path
getPRTemplateDefaultFirst(f) ==
  CASE ~f.rootOk -> Found("null", FALSE)
    [] f.default = "readable" -> Found("GET_PR_TEMPLATE_PROMPT with the default template", FALSE)
    [] f.customPath # "" /\ f.custom = "readable" ->
         Found("GET_PR_TEMPLATE_PROMPT with the custom template", FALSE)
    [] OTHER -> Found("null", f.customPath # "")
\* getPRTemplate: the returned prompt, and whether the warning was shown on the way
getPRTemplate(f) ==
  CASE ~f.rootOk -> Found("null", FALSE)
    [] f.customPath # "" /\ f.custom = "readable" ->
         Found("GET_PR_TEMPLATE_PROMPT with the custom template", FALSE)
    [] f.default = "readable" ->
         Found("GET_PR_TEMPLATE_PROMPT with the default template", f.customPath # "")
    [] OTHER -> Found("null", f.customPath # "")

\* const template = await getPRTemplate()
PRContextTemplate ==
  /\ cmd = "prContext" /\ pc = "getPRTemplate"
  /\ gitLog' = Append(gitLog, GitCommand("rev-parse --show-toplevel", <<>>, templateFiles.rootOk))
  /\ template' = getPRTemplate(templateFiles).template
  /\ notices' = IF getPRTemplate(templateFiles).warned
                THEN Append(notices, Notice("warning", "could not load custom pull request template"))
                ELSE notices
  /\ pc' = "prompt"
  /\ UNCHANGED <<result, branchDiff, prompt>>
  /\ CtxFrame

\* const prompt = template || KVY_PRESET.GENERATE_PR_DESCRIPTION_PROMPT; the 'Generating' notice
PRContextPrompt ==
  /\ cmd = "prContext" /\ pc = "prompt"
  /\ prompt' = IF template = "null" THEN "GENERATE_PR_DESCRIPTION_PROMPT" ELSE template
  /\ Notify("info", "generating initial pull request description")
  /\ pc' = "initialGen"
  /\ UNCHANGED <<result, gitLog, branchDiff, template>>
  /\ CtxFrame

PRContextNext == PRContextDiff \/ PRContextTemplate \/ PRContextPrompt

(***************************************************************************)
(* The generate calls of one LLMService instance, in the orders in which   *)
(* the commands issue them, with the user editing the settings in between. *)
(***************************************************************************)
MaxCalls == 2      \* generate calls on one instance

\* the call sites that can come next on the instance that made these calls
NextSites(calls) ==
  IF calls = <<>>
  THEN {"commitFull", "commitSimple", "prInitial", "changelogDraft"}
  ELSE LET last == calls[Len(calls)]
       IN  CASE last.site = "prInitial" /\ last.outcome = "ok" -> {"prRefine", "prTitle"}
             \* a failed refinement is followed by the Retry prompt and the next iteration
             [] last.site = "prRefine" -> {"prRefine", "prTitle"}
             [] last.site \in {"changelogDraft", "changelogRefine"} /\ last.outcome = "ok" ->
                  {"changelogRefine"}
             [] OTHER -> {}

LlmFrame ==
  UNCHANGED <<cmd, pc, answer, baseBranch, pr, cl, prEffects, notices, result, ops, version,
              pkgVersion, token, relData, fnVars, scm, staged, diffOutput, ctxVars, taskVars>>

\* LlmGenerate as it would be if the settings read by the first call are kept by the instance
LlmGenerateCached ==
  /\ cmd = "llm"
  /\ Len(llmCalls) < MaxCalls
  /\ \E site \in NextSites(llmCalls), gitOk \in BOOLEAN, backendOk \in BOOLEAN :
       LET cached == IF llmCalls = <<>> THEN settings ELSE llmCalls[1].read
           call == generate(site, cached, gitOk, backendOk)
       IN /\ llmCalls' = Append(llmCalls, call @@ [read |-> cached])
          /\ gitLog' = IF call.gitCalls = 1
                       THEN Append(gitLog, GitCommand("log -1", <<>>, gitOk))
                       ELSE gitLog
  /\ UNCHANGED settings
  /\ LlmFrame
\* await llm.generate(...) at one of the call sites
LlmGenerate ==
  /\ cmd = "llm"
  /\ Len(llmCalls) < MaxCalls
  /\ \E site \in NextSites(llmCalls), gitOk \in BOOLEAN, backendOk \in BOOLEAN :
       LET call == generate(site, settings, gitOk, backendOk)
       IN /\ llmCalls' = Append(llmCalls, call @@ [read |-> settings])
          /\ gitLog' = IF call.gitCalls = 1
                       THEN Append(gitLog, GitCommand("log -1", <<>>, gitOk))
                       ELSE gitLog
  /\ UNCHANGED settings
  /\ LlmFrame

\* the user edits a commitPilot setting while the instance is alive
ChangeSettings ==
  /\ cmd = "llm"
  /\ Len(llmCalls) < MaxCalls
  /\ settings' \in Settings \ {settings}
  /\ UNCHANGED <<llmCalls, gitLog>>
  /\ LlmFrame

LlmNext == LlmGenerate \/ ChangeSettings

InitCalls ==
  /\ cmd \in {"publish", "prContext", "llm"}
  /\ pc = CASE cmd = "publish" -> "idle"
            [] cmd = "prContext" -> "getDetailedBranchDiff"
            [] OTHER -> "generate"
  /\ answer = "none"
  /\ baseBranch = IF cmd = "prContext" THEN "main" ELSE "none"
  /\ pr = NoLoop
  /\ cl = NoLoop
  /\ genCalls = 0
  /\ titleFor = 0
  /\ continuations = 0
  /\ continuedWith = 0
  /\ clipboard = 0
  /\ clipboardWrites = 0
  /\ pagesOpened = 0
  /\ docsOpened = 0
  /\ prDocument = 0
  /\ prRemote = NoRemote
  /\ changelog = "none"
  /\ savedEntries = 0
  /\ fileWrites = 0
  /\ notices = IF cmd = "prContext" THEN <<Notice("info", "analyzing code changes")>> ELSE <<>>
  /\ result = "running"
  /\ ops = <<>>
  /\ version = IF cmd = "publish" THEN "patch" ELSE "none"
  /\ pkgVersion = "old"
  /\ token \in IF cmd = "publish" THEN {"none", "stored"} ELSE {"none"}
  /\ origin = IF cmd = "publish" THEN [branch |-> "level", host |-> "github"] ELSE NoOrigin
  /\ releaseNotes = IF cmd = "publish" THEN Entry("patch", "present") ELSE NoEntry
  /\ tagged = NoRelease
  /\ published = NoRelease
  /\ workingCopy = NoWorkingCopy
  /\ runs = 0
  /\ FnsIdle
  /\ settings \in IF cmd = "llm" THEN Settings ELSE {DefaultSettings("sk-1")}
  /\ llmCalls = <<>>
  /\ scm = NoScm
  /\ staged = <<>>
  /\ gitLog = <<>>
  /\ diffOutput = <<>>
  /\ graph \in IF cmd = "prContext" THEN Graphs ELSE {NoGraph}
  /\ branchDiff = <<>>
  /\ templateFiles \in IF cmd = "prContext" THEN TemplateFiles ELSE {NoTemplateFiles}
  /\ template = "none"
  /\ prompt = "none"
  /\ tasks = NoTasks
  /\ subprocesses = {}

NextCalls == PublishNext \/ PRContextNext \/ LlmNext

SpecCalls == InitCalls /\ [][NextCalls]_vars

(***************************************************************************)
(* CHANGELOG.md under a sequence of updateUnreleasedChangelog and          *)
(* updateChangelog calls.  The file is a text as above; the entries handed *)
(* to updateUnreleasedChangelog have the layout that                       *)
(* GENERATE_CHANGELOG_PROMPT asks for; pc names the call made last.        *)
(***************************************************************************)
MaxUpdates == 3    \* calls that write CHANGELOG.md

\* the subheadings of GENERATE_CHANGELOG_PROMPT, in its order
Subheadings == <<"### Added", "### Changed", "### Deprecated", "### Removed", "### Fixed",
                 "### Security">>

IsSubheading(line) == \E r \in 1..Len(Subheadings) : Subheadings[r] = line

Rank(line) == CHOOSE r \in 1..Len(Subheadings) : Subheadings[r] = line

\* the line starts with "- "
IsBullet(line) == line \in {"- added x", "- fixed y", "- changed z", DollarLine, "- costs $5"}

AddedGroup == <<"### Added", "", "- added x">>
ChangedGroup == <<"### Changed", "", "- changed z">>
FixedGroup == <<"### Fixed", "", "- fixed y">>

\* well-formed entries: every subheading at most once, in the fixed order, with a bullet
Entries == {AddedGroup, FixedGroup, AddedGroup \o <<"">> \o FixedGroup,
            ChangedGroup \o <<"">> \o <<"### Fixed", "", DollarLine>>}

\* the files the calls start from
ChangelogFiles ==
  {NoFile,
   DefaultChangelog,
   <<"# Changelog", "", UnreleasedHeading, "">> \o ChangedGroup
      \o <<"", "## [1.0.0] - 2024-01-01", "">> \o AddedGroup \o <<"">>,
   <<"# Changelog", "", UnreleasedHeading, "", "### Fixed", "", DollarLine, "">>,
   <<"# Changelog", "", UnreleasedHeading, "## [1.0.0] - 2024-01-01", "">> \o FixedGroup
      \o <<"">>,
   <<"# Changelog", "", "## [1.0.0] - 2024-01-01", "">> \o AddedGroup \o <<"">>}

\* existingUnreleased ? `${existingUnreleased}\n\n${newChangelog}` : newChangelog
mergedChanges(text, newChangelog) ==
  IF unreleasedContent(text) # <<"">>
  THEN unreleasedContent(text) \o <<"">> \o newChangelog
  ELSE newChangelog

\* updateUnreleasedChangelog(newChangelog): the text handed to fs.writeFile.
\* existingContent.replace(/## \[Unreleased\][\s\S]*?(?=\n## \[|$)/,
\*                         `## [Unreleased]\n\n${mergedChanges}`)
updateUnreleasedChangelog(file, newChangelog) ==
  LET text == getChangelogContent(file)
      i == FirstUnreleased(text)
      merged == mergedChanges(text, newChangelog)
  IN  IF i = 0
      THEN text
      ELSE SubSeq(text, 1, i - 1) \o <<UnreleasedHeading, "">>
             \o [k \in 1..Len(merged) |-> ReplacementPatterns(merged[k])]
             \o SubSeq(text, MatchEnd(text, i) + 1, Len(text))

FileFrame ==
  UNCHANGED <<cmd, answer, baseBranch, pr, cl, genCalls, titleFor, continuations,
              continuedWith, clipboard, clipboardWrites, pagesOpened, docsOpened, prDocument,
              prRemote, changelog, notices, result, ops, pkgVersion, token, relData,
              currentVersion, customVersion, nextVersion, svcVars>>

\* await updateUnreleasedChangelog(changelogEntries)
UpdateUnreleasedFile ==
  /\ cmd = "changelogFile" /\ fileWrites < MaxUpdates
  /\ \E newChangelog \in Entries :
       /\ savedEntries' = newChangelog
       /\ updatedContent' = updateUnreleasedChangelog(changelogContent, newChangelog)
  /\ changelogContent' = updatedContent'
  /\ fileWrites' = fileWrites + 1
  /\ pc' = "updateUnreleasedChangelog"
  /\ UNCHANGED <<version, newEntry>>
  /\ FileFrame

\* const releaseNotes = await updateChangelog(newVersion)
UpdateChangelogFile ==
  /\ cmd = "changelogFile" /\ fileWrites < MaxUpdates
  /\ \E v \in NewVersions :
       /\ version' = v
       /\ updatedContent' = updateChangelog(changelogContent, v)
       /\ newEntry' = NewEntry(getChangelogContent(changelogContent), v)
  /\ changelogContent' = updatedContent'
  /\ fileWrites' = fileWrites + 1
  /\ pc' = "updateChangelog"
  /\ UNCHANGED savedEntries
  /\ FileFrame

InitFile ==
  /\ cmd = "changelogFile"
  /\ pc = "idle"
  /\ answer = "none"
  /\ baseBranch = "none"
  /\ pr = NoLoop
  /\ cl = NoLoop
  /\ genCalls = 0
  /\ titleFor = 0
  /\ continuations = 0
  /\ continuedWith = 0
  /\ clipboard = 0
  /\ clipboardWrites = 0
  /\ pagesOpened = 0
  /\ docsOpened = 0
  /\ prDocument = 0
  /\ prRemote = NoRemote
  /\ changelog = "none"
  /\ savedEntries = <<>>
  /\ fileWrites = 0
  /\ notices = <<>>
  /\ result = "running"
  /\ ops = <<>>
  /\ version = "none"
  /\ pkgVersion = "old"
  /\ token = "none"
  /\ origin = NoOrigin
  /\ releaseNotes = NoEntry
  /\ tagged = NoRelease
  /\ published = NoRelease
  /\ workingCopy = NoWorkingCopy
  /\ runs = 0
  /\ changelogContent \in ChangelogFiles
  /\ updatedContent = <<>>
  /\ newEntry = <<>>
  /\ currentVersion = <<>>
  /\ customVersion = <<>>
  /\ nextVersion = <<>>
  /\ settings = DefaultSettings("sk-1")
  /\ SvcIdle

NextFile == UpdateUnreleasedFile \/ UpdateChangelogFile

SpecFile == InitFile /\ [][NextFile]_vars

(***************************************************************************)
(* execGitCommand under several command invocations.  A command handler is *)
(* an async function: the editor calls it whenever the user runs the       *)
(* command, also while an earlier invocation is suspended at an await.     *)
(* Each invocation awaits its own git commands one after the other.        *)
(***************************************************************************)
MaxTasks == 2      \* command invocations

TaskCommands == {"commitFull", "release"}

\* the git commands an invocation awaits, in order, when none of them fails:
\* getStagedDiff and getStagedFiles; validateRepositoryState, syncWithRemote
\* (branch on the remote, not behind), commitVersionBump, createRelease
GitProgram(command, files) ==
  IF command = "commitFull"
  THEN <<"diff --cached --name-only">>
       \o [i \in 1..Len(StagedDiffCommands(files)) |-> StagedDiffCommands(files)[i].name]
       \o <<"diff --cached --name-only">>
  ELSE <<"status --porcelain", "remote", "rev-parse --abbrev-ref HEAD", "fetch origin",
         "ls-remote --heads origin", "rev-list HEAD..origin --count",
         "add package.json CHANGELOG.md", "commit -m", "tag -a", "push origin version",
         "push origin version", "push">>

TasksFrame ==
  UNCHANGED <<cmd, pc, answer, baseBranch, pr, cl, prEffects, notices, result, ops, version,
              pkgVersion, token, relData, fnVars, settings, llmCalls, scm, staged, gitLog,
              diffOutput, ctxVars>>

Task(command, pos, state) == [command |-> command, pos |-> pos, state |-> state]

\* the user runs a command: vscode.commands.registerCommand gives the handler no guard
Invoke ==
  /\ cmd = "tasks"
  /\ Len(tasks) < MaxTasks
  /\ \E command \in TaskCommands : tasks' = Append(tasks, Task(command, 1, "running"))
  /\ UNCHANGED subprocesses
  /\ TasksFrame

\* execGitCommand up to the await: exec() starts the subprocess at once
ExecStart(t) ==
  subprocesses' = subprocesses
     \cup {[task |-> t, command |-> GitProgram(tasks[t].command, staged)[tasks[t].pos]]}

\* an invocation reaches its next `await execGitCommand(...)`
ExecGitCommand ==
  /\ cmd = "tasks"
  /\ \E t \in 1..Len(tasks) :
       /\ tasks[t].state = "running"
       /\ ExecStart(t)
       /\ tasks' = [tasks EXCEPT ![t].state = "awaiting"]
  /\ TasksFrame

\* the subprocess exits: the promise settles and the invocation resumes, or
\* ends in its catch block when git failed, or returns after its last command
ExecExit ==
  /\ cmd = "tasks"
  /\ \E p \in subprocesses, ok \in BOOLEAN :
       LET t == p.task
           last == tasks[t].pos = Len(GitProgram(tasks[t].command, staged))
       IN /\ subprocesses' = subprocesses \ {p}
          /\ tasks' = [tasks EXCEPT ![t] =
                         IF ok /\ ~last THEN Task(@.command, @.pos + 1, "running")
                         ELSE Task(@.command, @.pos, "done")]
  /\ TasksFrame

InitTasks ==
  /\ cmd = "tasks"
  /\ pc = "idle"
  /\ answer = "none"
  /\ baseBranch = "none"
  /\ pr = NoLoop
  /\ cl = NoLoop
  /\ genCalls = 0
  /\ titleFor = 0
  /\ continuations = 0
  /\ continuedWith = 0
  /\ clipboard = 0
  /\ clipboardWrites = 0
  /\ pagesOpened = 0
  /\ docsOpened = 0
  /\ prDocument = 0
  /\ prRemote = NoRemote
  /\ changelog = "none"
  /\ savedEntries = 0
  /\ fileWrites = 0
  /\ notices = <<>>
  /\ result = "running"
  /\ ops = <<>>
  /\ version = "none"
  /\ pkgVersion = "old"
  /\ token = "none"
  /\ origin = NoOrigin
  /\ releaseNotes = NoEntry
  /\ tagged = NoRelease
  /\ published = NoRelease
  /\ workingCopy = NoWorkingCopy
  /\ runs = 0
  /\ FnsIdle
  /\ settings = DefaultSettings("sk-1")
  /\ llmCalls = <<>>
  /\ scm = NoScm
  /\ staged \in {files \in StagedLists : Len(files) <= 1}
  /\ gitLog = <<>>
  /\ diffOutput = <<>>
  /\ CtxIdle
  /\ tasks = NoTasks
  /\ subprocesses = {}

NextTasks ==
  \/ Invoke
  \/ ExecGitCommand
  \/ ExecExit

SpecTasks == InitTasks /\ [][NextTasks]_vars

(***************************************************************************)
(* Properties                                                              *)
(***************************************************************************)
LastNotice(seq) == seq[Len(seq)]

\* the step starts no operation; at most it logs the dismissed version prompt
NoOperationStarted == ops' = ops \/ ops' = Append(ops, Op(3, "versionPick", FALSE))

\* the step has no side effect: no generation call, no clipboard, page, document
\* or file write, no git command
NoSideEffect ==
  /\ TotalGenCalls' = TotalGenCalls
  /\ UNCHANGED <<prEffects, pkgVersion, token>>
  /\ NoOperationStarted

\* C1: when the PR page is opened and no generation call has failed, the
\* number of refinement calls equals the number of Improve replies with
\* non-empty feedback (n), the continuation ran once, and both the title
\* generation and openPRCreationPage received the result of the n-th
\* refinement call (content n + 1; the draft, content 1, only when n = 0).
C1_SubmitAfterRefinements ==
  (cmd = "pr" /\ continuations > 0 /\ pr.failures = 0) =>
    /\ pr.refineCalls = pr.improves
    /\ continuations = 1
    /\ titleFor = pr.improves + 1
    /\ continuedWith = pr.improves + 1

C1_Witness ==
  /\ cmd = "pr" /\ continuations = 1 /\ pr.failures = 0
  /\ pr.improves = 2 /\ continuedWith = 3

\* a reply to the feedback input box that is empty or a dismissal
EmptyFeedbackStep(s, t) == s.stage = "FeedbackInput" /\ t.feedback \in EmptyFeedbacks

\* the empty reply starts no generation call and changes no content
EmptyFeedbackKeeps(s, t) ==
  EmptyFeedbackStep(s, t) =>
    /\ t.stage = "Iter"
    /\ t.content = s.content
    /\ t.refineCalls = s.refineCalls
    /\ NoSideEffect

\* the iteration that follows offers the choices again, on the same content
ChoicesOfferedAgain(s, t) ==
  (s.stage = "Iter" /\ t # s) =>
    /\ t.stage = "Reviewing"
    /\ t.content = s.content
    /\ t.shown = s.content
    /\ t.refineCalls = s.refineCalls
    /\ NoSideEffect

\* C2: in both loops, Improve followed by an empty or dismissed feedback
\* input makes no generation call, leaves the content unchanged and leads
\* back to the Submit/Improve/Cancel pick.
C2_EmptyFeedbackKeepsReviewing ==
  [][/\ EmptyFeedbackKeeps(pr, pr') /\ ChoicesOfferedAgain(pr, pr')
     /\ EmptyFeedbackKeeps(cl, cl') /\ ChoicesOfferedAgain(cl, cl')]_vars

C2_Witness ==
  /\ cmd = "pr" /\ pc = "clLoop"
  /\ cl.stage = "Iter" /\ cl.feedback = "undefined" /\ cl.content = 2
  /\ pr.refineCalls = pr.improves

\* the Cancel reply to the Submit/Improve/Cancel pick
CancelStep(s, t) == s.stage = "Reviewing" /\ t.choice = "Cancel"

CancelEnds(s, t) ==
  CancelStep(s, t) =>
    /\ t.stage = "Cancelled"
    /\ pc' = "done"
    /\ NoSideEffect
    /\ t.notices = Append(s.notices, Notice("info", "cancelled"))
    /\ notices' = notices

\* C3: in both loops the Cancel choice ends the command in that step with
\* only the cancellation notice, and nothing happens once the command has
\* ended: no generation call, clipboard write, page, document or file write.
C3_CancelEndsTask ==
  [][/\ CancelEnds(pr, pr')
     /\ CancelEnds(cl, cl')
     /\ (pc = "done" => UNCHANGED vars)]_vars

C3_Witness ==
  /\ cmd = "pr" /\ pc = "done"
  /\ cl.choice = "Cancel" /\ cl.stage = "Cancelled" /\ cl.refineCalls = 1
  /\ pr.refineCalls = 1 /\ continuations = 1 /\ savedEntries = 0

\* the Retry reply to the Retry/Cancel prompt of the PR loop
RetryStep == pr.stage = "RetryPrompt" /\ pr'.retry = "Retry"

\* C4 as stated: Retry goes straight back to the refinement call, with the
\* feedback of the failed call.
C4_RetryReissuesCall ==
  [][RetryStep =>
       /\ pr'.stage = "Applying"
       /\ pr'.feedback = pr.feedback
       /\ pr.feedback \in Feedbacks]_vars

\* C4, amended: a failed refinement call of the PR loop leads to the
\* Retry/Cancel prompt with the content unchanged; Retry issues no call and
\* leads, with the content unchanged and the feedback dropped, back to the
\* Submit/Improve/Cancel pick; Cancel or a dismissal ends in Cancelled.
C4_RetryReturnsToReview ==
  [][/\ (pr.stage = "Applying" /\ pr'.failures = pr.failures + 1) =>
          (pr'.stage = "RetryPrompt" /\ pr'.content = pr.content)
     /\ RetryStep =>
          /\ pr'.stage = "Iter" /\ pc' = pc
          /\ pr'.content = pr.content
          /\ NoSideEffect
     /\ (pr.stage = "Iter" /\ pr.retry = "Retry" /\ pr' # pr) =>
          /\ pr'.stage = "Reviewing"
          /\ pr'.feedback = "none"
          /\ pr'.content = pr.content /\ pr'.shown = pr.content
          /\ NoSideEffect
     /\ (pr.stage = "RetryPrompt" /\ pr'.retry \in {"Cancel", "dismiss"}) =>
          (pr'.stage = "Cancelled" /\ pc' = "done" /\ NoSideEffect)]_vars

C4_Witness ==
  /\ cmd = "pr" /\ pc = "prLoop"
  /\ pr.stage = "Reviewing" /\ pr.failures = 1 /\ pr.refineCalls = 1 /\ pr.content = 1

\* a dismissal of a command-level choice prompt or of the Retry/Cancel prompt
DismissOutsidePick ==
  \/ pc \in {"selectBranch", "askCreate", "askUpdate", "versionPick"} /\ answer' = "dismiss"
  \/ pr.stage = "RetryPrompt" /\ pr'.retry = "dismiss"

\* a dismissal of the Submit/Improve/Cancel pick of a loop
DismissPick(s, t) == s.stage = "Reviewing" /\ t.choice = "dismiss"

\* the command ends in this step; the step starts nothing else
EndsTask == pc' = "done" /\ NoSideEffect

\* C5 as stated: a dismissal of any choice prompt ends the command.
C5_DismissEndsTask ==
  [][(DismissOutsidePick \/ DismissPick(pr, pr') \/ DismissPick(cl, cl')) => EndsTask]_vars

PickDismissContinues(s, t) ==
  DismissPick(s, t) =>
    /\ t.stage = "Iter" /\ pc' = pc
    /\ t.content = s.content
    /\ NoSideEffect

\* C5, amended: a dismissal of the base-branch pick, of the Retry/Cancel
\* prompt, of a changelog confirmation or of the version-bump pick ends the
\* command in that step; a dismissal of the Submit/Improve/Cancel pick of
\* either loop does not: the loop runs its next iteration on the same content.
C5_DismissEndsTaskExceptLoopPick ==
  [][/\ DismissOutsidePick => EndsTask
     /\ PickDismissContinues(pr, pr')
     /\ PickDismissContinues(cl, cl')
     /\ (pc = "done" => UNCHANGED vars)]_vars

C5_Witness ==
  /\ cmd = "pr" /\ pc = "prLoop"
  /\ pr.stage = "Reviewing" /\ pr.dismissals = 1 /\ pr.content = 2

\* C6 as stated: given the same replies and generation outcomes, the two
\* loops are always in the same stage.
C6_LoopsAgree == cmd = "loops" => pr.stage = cl.stage

\* the loop's editor is deactivated or closed
EditorLostStep(s, t) == t.lost = s.lost + 1

\* C7: in both loops an iteration that finds the editor not active shows it
\* again before the text is replaced and the pick is offered; losing the
\* editor never changes the stage of the loop, and neither the loss nor the
\* reopening changes the content or starts a generation call.
C7_EditorReopened ==
  [][/\ \A L \in {<<pr, pr'>>, <<cl, cl'>>} :
          /\ (L[1].stage = "Iter" /\ L[2] # L[1]) =>
               /\ L[2].stage = "Reviewing" /\ L[2].editor = "active"
               /\ L[2].shows = L[1].shows + (IF L[1].editor = "active" THEN 0 ELSE 1)
               /\ L[2].shown = L[1].content /\ L[2].content = L[1].content
               /\ L[2].refineCalls = L[1].refineCalls
          /\ EditorLostStep(L[1], L[2]) =>
               /\ L[2].stage = L[1].stage /\ pc' = pc
               /\ L[2].content = L[1].content
               /\ L[2].refineCalls = L[1].refineCalls
     /\ ((pr.stage = "Iter" /\ pr' # pr) \/ (cl.stage = "Iter" /\ cl' # cl)
          \/ EditorLostStep(pr, pr') \/ EditorLostStep(cl, cl')) => NoSideEffect]_vars

C7_Witness ==
  /\ cmd = "pr" /\ pc = "clLoop"
  /\ cl.stage = "Reviewing" /\ cl.lost = 1 /\ cl.shows = 2 /\ cl.editor = "active"
  /\ cl.content = 2

\* C8: when generatePRDescription has ended without a base branch, it made
\* no generation call, wrote no file and no clipboard, opened no page or
\* document and ran no network command.
C8_NoBranchNoEffect ==
  (cmd = "pr" /\ baseBranch = "none" /\ pc # "selectBranch") =>
    /\ pc = "done" /\ result = "returned"
    /\ TotalGenCalls = 0
    /\ fileWrites = 0 /\ clipboardWrites = 0
    /\ pagesOpened = 0 /\ docsOpened = 0 /\ continuations = 0
    /\ pr = NoLoop /\ cl = NoLoop

C8_Witness ==
  cmd = "pr" /\ pc = "done" /\ baseBranch = "none" /\ answer = "dismiss"

\* failures that do not end the release: the sync commands inside the try
\* block of syncWithRemote and the package.json update
SyncTolerated == {"lsRemote", "pushNew", "revList", "pull"}
Tolerated == SyncTolerated \cup {"updatePackage"}

OpIndexes == 1..Len(ops)

StagesAscend == \A i, j \in OpIndexes : i < j => ops[i].st <= ops[j].st

NoStageSkipped ==
  \A j \in OpIndexes : \A k \in 1..(ops[j].st - 1) :
    \E i \in 1..(j - 1) : ops[i].st = k

OpNames(seq) == [i \in 1..Len(seq) |-> seq[i].op]

StageOps(st) == SelectSeq(ops, LAMBDA o : o.st = st)

\* nothing has been written or created: no file, no version, no tag, no hosted release
NothingWritten ==
  /\ fileWrites = 0
  /\ changelog \in {"absent", "present", "noUnreleased"}
  /\ pkgVersion = "old"
  /\ version = "none"
  /\ releaseNotes = NoEntry
  /\ tagged = NoRelease
  /\ published = NoRelease

\* C11: when `git status --porcelain` reports changes or `git remote` reports
\* no remote, the validation is the last thing the command does: every
\* operation started is a validation operation (no fetch, pull, push, version
\* prompt, commit or tag), nothing is written, and the command ends with an
\* error notification.
C11_ValidationFailureStopsAll ==
  \A i \in OpIndexes :
    (ops[i].st = 1 /\ ~ops[i].ok) =>
      /\ i = Len(ops)
      /\ \A j \in OpIndexes : ops[j].st = 1
      /\ NothingWritten
      /\ pc = "done" /\ LastNotice(notices).kind = "error"

C11_Witness ==
  /\ cmd = "release" /\ pc = "done"
  /\ OpNames(ops) = <<"status", "remote">>
  /\ ops[1].ok /\ ~ops[2].ok
  /\ LastNotice(notices).kind = "error"

\* commands that change the remote or the working copy
Mutating == {"pushNew", "pull", "fallbackPush", "commit", "tag", "pushTag", "push"}

VersionPrompts == {"versionPick", "customVersion"}

VersionDismissed ==
  /\ cmd = "release" /\ pc = "done" /\ Len(ops) > 0
  /\ ops[Len(ops)].op \in VersionPrompts /\ ~ops[Len(ops)].ok

\* C12 as stated: after the version choice or the custom-version input is
\* dismissed, no command that changes the working copy or the remote has
\* succeeded, nothing is written, and the last notification is informational.
C12_DismissIsCleanCancel ==
  VersionDismissed =>
    /\ \A i \in OpIndexes : ~(ops[i].op \in Mutating /\ ops[i].ok)
    /\ NothingWritten
    /\ LastNotice(notices).kind = "info"

\* C12, amended: a dismissed version choice or custom-version input is the
\* last operation of the command, which ends with the error notification of
\* its catch block; no file is written, no version is fixed, no commit, tag
\* or hosted release is made; the only commands that may have changed the
\* remote or the working copy before are those of syncWithRemote (the
\* establishing push, the rebase-pull, the fallback push).
C12_DismissAbortsBeforeWrites ==
  \A i \in OpIndexes :
    (ops[i].op \in VersionPrompts /\ ~ops[i].ok) =>
      /\ i = Len(ops)
      /\ pc = "done" /\ LastNotice(notices).kind = "error"
      /\ NothingWritten
      /\ \A j \in OpIndexes :
           (ops[j].op \in Mutating /\ ops[j].ok) =>
             ops[j].st = 2 /\ ops[j].op \in {"pushNew", "pull", "fallbackPush"}

C12_Witness ==
  /\ VersionDismissed
  /\ ops[Len(ops)].op = "customVersion"
  /\ \E i \in OpIndexes : ops[i].op = "pull" /\ ops[i].ok
  /\ LastNotice(notices).kind = "error"

SyncReturned == cmd = "release" /\ \E i \in DOMAIN notices : notices[i].msg = "synced with remote"

AllOk(seq) == \A i \in 1..Len(seq) : seq[i].ok

\* C13: when syncWithRemote has returned and every git command it ran has
\* succeeded, the commands after the fetch are: ls-remote and the
\* establishing push when the remote lacks the branch; ls-remote, rev-list
\* and the rebase-pull when the remote has it and the local branch is
\* behind; ls-remote and rev-list only when it is not behind.
C13_SyncRunsOneAlternative ==
  (SyncReturned /\ AllOk(StageOps(2))) =>
    OpNames(StageOps(2)) =
      <<"currentBranch", "fetch">> \o
        (CASE origin.branch = "missing" -> <<"lsRemote", "pushNew">>
           [] origin.branch = "behind" -> <<"lsRemote", "revList", "pull">>
           [] OTHER -> <<"lsRemote", "revList">>)

C13_Witness ==
  /\ SyncReturned /\ AllOk(StageOps(2))
  /\ origin.branch = "behind"
  /\ \E i \in OpIndexes : ops[i].op = "pull"
  /\ ~\E i \in OpIndexes : ops[i].op \in {"pushNew", "fallbackPush"}

\* C14 as stated: a failed fetch, ls-remote, rev-list or rebase-pull is
\* followed by the establishing push, and the command ends in the sync stage
\* only after a failed establishing push.
C14_SyncFailureFallsBack ==
  /\ \A i \in OpIndexes :
       (ops[i].op \in {"fetch", "lsRemote", "revList", "pull"} /\ ~ops[i].ok) =>
         IF i = Len(ops) THEN pc = "syncFallbackPush" ELSE ops[i + 1].op = "fallbackPush"
  /\ (pc = "done" /\ Len(ops) > 0 /\ ops[Len(ops)].st = 2 /\ ops[Len(ops)].op # "currentBranch") =>
       ops[Len(ops)].op = "fallbackPush"

CreateReleaseReturned == cmd = "release" /\ \E i \in OpIndexes : ops[i].st = 6

RepositoryOps == {"commit", "tag", "push", "pushTag"}

\* C15 as stated: when createRelease has returned, its repository operations
\* were, in this order, the commit, the tag, the push of the commit and the
\* push of the tag, each once.
C15_CommitTagPushOrder ==
  CreateReleaseReturned =>
    OpNames(SelectSeq(ops, LAMBDA o : o.op \in RepositoryOps)) =
      <<"commit", "tag", "push", "pushTag">>

HostedAttempted == \E i \in DOMAIN notices : notices[i].msg = "detected GitHub repository"

\* isGithubRepo has returned: the first operation of stage 6 succeeded
HostKnown == Len(StageOps(6)) > 0 /\ StageOps(6)[1].ok

\* C20: createGithubRelease is called exactly when isGithubRepo has returned
\* and the origin URL is a github.com one; by then the commit, the tag and
\* the pushes have all succeeded; the release request carries the version
\* and the notes of the tag.
C20_HostedReleaseAfterTag ==
  /\ HostedAttempted <=> (HostKnown /\ origin.host = "github")
  /\ HostedAttempted =>
       /\ \A op \in RepositoryOps : \E i \in OpIndexes : ops[i].op = op
       /\ \A i \in OpIndexes : ops[i].op \in RepositoryOps => ops[i].ok
       /\ tagged = Release(version, releaseNotes)
  /\ published # NoRelease => (HostedAttempted /\ published = tagged)

C20_Witness ==
  /\ cmd = "release" /\ pc = "done"
  /\ origin.host = "github"
  /\ published # NoRelease /\ published = tagged
  /\ published.notes.version = version
  /\ ops[Len(ops)].op = "githubRelease" /\ ops[Len(ops)].ok

(***************************************************************************)
(* The Markdown structure of a changelog text, as the claims read it: a    *)
(* section is a heading line and the lines up to the next heading line;    *)
(* its body is what these lines contain apart from blank lines.            *)
(***************************************************************************)
UpdateDone == cmd = "updateChangelog" /\ pc = "done"

HeadingIndexes(text) == {i \in 1..Len(text) : IsHeading(text[i])}

SectionLast(text, h) ==
  CHOOSE k \in h..Len(text) :
    /\ \A j \in (h + 1)..k : ~IsHeading(text[j])
    /\ k = Len(text) \/ IsHeading(text[k + 1])

Body(text, h) == SelectSeq(SubSeq(text, h + 1, SectionLast(text, h)), LAMBDA line : line # "")

Preamble(text) ==
  IF HeadingIndexes(text) = {}
  THEN text
  ELSE SubSeq(text, 1, (CHOOSE i \in HeadingIndexes(text) : \A j \in HeadingIndexes(text) : i <= j) - 1)

Content(text) == SelectSeq(text, LAMBDA line : line # "")

Occurrences(lines, text) ==
  Cardinality({p \in 1..Len(Content(text)) :
                 /\ p + Len(lines) - 1 <= Len(Content(text))
                 /\ SubSeq(Content(text), p, p + Len(lines) - 1) = lines})

\* the released sections of a text, in order, each with its heading and its body
OldSections(text) ==
  LET at == SelectSeq([i \in 1..Len(text) |-> i], LAMBDA i : text[i] \in OldHeadings)
  IN  [k \in 1..Len(at) |-> <<text[at[k]]>> \o Body(text, at[k])]

UnreleasedIndexes(text) == {i \in 1..Len(text) : text[i] = UnreleasedHeading}

\* C16 as stated: for a changelog with an Unreleased section of body B, the
\* text written by updateChangelog(V) has a section "## [V] - date" whose
\* body is B, B occurs as often as before (moved, not duplicated), and the
\* Unreleased heading stands with an empty body right before the new section.
C16_UnreleasedMoved ==
  (UpdateDone /\ Cardinality(UnreleasedIndexes(getChangelogContent(changelogContent))) = 1) =>
    LET before == getChangelogContent(changelogContent)
        B == Body(before, CHOOSE i \in UnreleasedIndexes(before) : TRUE)
    IN  \E u, h \in 1..Len(updatedContent) :
          /\ u < h
          /\ updatedContent[u] = UnreleasedHeading
          /\ Body(updatedContent, u) = <<>>
          /\ SectionLast(updatedContent, u) = h - 1
          /\ updatedContent[h] = VersionHeading(version)
          /\ Body(updatedContent, h) = B
          /\ B # <<>> => Occurrences(B, updatedContent) = Occurrences(B, before)

\* C17 as stated: the text written by updateChangelog(V) keeps the preamble
\* and the released sections of the file, unchanged and in their order, and
\* has the new section before all of them; without a file it is the
\* skeleton (preamble, empty Unreleased heading) followed by the new section.
C17_PriorContentKept ==
  UpdateDone =>
    LET before == getChangelogContent(changelogContent)
    IN  /\ Preamble(updatedContent) = Preamble(before)
        /\ OldSections(updatedContent) = OldSections(before)
        /\ \E h \in 1..Len(updatedContent) :
             /\ updatedContent[h] = VersionHeading(version)
             /\ \A g \in 1..Len(updatedContent) : updatedContent[g] \in OldHeadings => h < g
        /\ changelogContent = NoFile =>
             /\ Content(updatedContent) =
                  Content(DefaultChangelog) \o <<VersionHeading(version)>>

ThreeIntegers(text) ==
  \E i, j \in 1..Len(text) :
    /\ 1 < i /\ i + 1 < j /\ j < Len(text)
    /\ text[i] = "." /\ text[j] = "."
    /\ \A k \in 1..Len(text) : k \notin {i, j} => IsDigit(text[k])

\* C19: with the custom bump, a text can be accepted exactly when it is
\* three dot-separated non-negative integers, and what is returned is "v"
\* followed by that text, whatever the current version is; when the input is
\* dismissed nothing is returned and determineNextVersion throws.
C19_CustomVersionStrict ==
  (cmd = "determineNextVersion" /\ answer = "custom") =>
    /\ nextVersion # <<>> =>
         /\ nextVersion = <<"v">> \o customVersion
         /\ ThreeIntegers(customVersion)
         /\ result = "returned"
    /\ (pc = "customInput" /\ customVersion # <<>>) =>
         (ENABLED AcceptCustomVersion <=> ThreeIntegers(customVersion))
    /\ (pc = "done" /\ nextVersion = <<>>) => result = "thrown"

C19_Witness ==
  /\ cmd = "determineNextVersion" /\ pc = "done" /\ answer = "custom"
  /\ currentVersion = <<"1", ".", "0", ".", "0">>
  /\ nextVersion = <<"v", "0", ".", "5", ".", "0">>
  /\ result = "returned"

(***************************************************************************)
(* C21: over any sequence of createGithubRelease calls, the token is asked *)
(* for only while none is stored: no call asks after an entered token was  *)
(* saved, no call asks when a token was stored from the start, and the     *)
(* release request is sent only with the token stored.                     *)
(***************************************************************************)
TokenSaved(i) == ops[i].op = "saveToken" /\ ops[i].ok

TokenPrompted(i) == ops[i].op = "tokenInput"

C21_TokenPromptedWhileNoneStored ==
  cmd = "publish" =>
    /\ \A i, j \in 1..Len(ops) : TokenSaved(i) /\ i < j => ~TokenPrompted(j)
    /\ (token = "stored" /\ ~\E i \in 1..Len(ops) : TokenSaved(i)) =>
         ~\E j \in 1..Len(ops) : TokenPrompted(j)
    /\ (\E j \in 1..Len(ops) : ops[j].op = "githubRelease") => token = "stored"

\* a token was entered and saved in one call, and a later call sent its request
C21_Witness ==
  /\ cmd = "publish"
  /\ \E i, j, k \in 1..Len(ops) :
       /\ i < j /\ j < k
       /\ TokenSaved(i)
       /\ ops[j].op = "createGithubRelease"
       /\ ops[k].op = "githubRelease"

(***************************************************************************)
(* C22: every failure raised inside a command is caught by that command    *)
(* and shown to the user: no command ends with a rejection nobody handles, *)
(* and a release that went past a failed package.json update has shown an  *)
(* error notification.                                                     *)
(***************************************************************************)
ErrorShown == \E n \in 1..Len(notices) : notices[n].kind = "error"

C22_EveryFailureNotified ==
  /\ result # "unhandled"
  /\ (\E i \in 1..Len(ops) : ops[i].op = "updatePackage" /\ ~ops[i].ok /\ i < Len(ops)) =>
       ErrorShown

(***************************************************************************)
(* C23: a commit-message command is one-shot.  When its generation call    *)
(* fails it ends with an error notification, one call made and the commit  *)
(* input box as the user left it; when the call succeeds it has made       *)
(* exactly one call and written the input box exactly once.                *)
(***************************************************************************)
CommitEnded == cmd \in CommitCommands /\ pc = "done"

GenerationFailed == Len(llmCalls) = 1 /\ llmCalls[1].outcome # "ok"

GenerationSucceeded == Len(llmCalls) = 1 /\ llmCalls[1].outcome = "ok"

C23_CommitMessageOneShot ==
  CommitEnded =>
    /\ Len(llmCalls) <= 1
    /\ GenerationFailed =>
         /\ LastNotice(notices).kind = "error"
         /\ scm.writes = 0 /\ scm.value = "typed by the user"
    /\ GenerationSucceeded => scm.writes = 1

(***************************************************************************)
(* C24: when the staged diff is empty, a commit-message command makes no   *)
(* generation call and does not write the commit input box; reaching its   *)
(* check of the diff, all it does is show the 'No staged changes found'    *)
(* warning.                                                                *)
(***************************************************************************)
\* getStagedDiff has returned the empty text
EmptyDiffObtained ==
  /\ cmd \in CommitCommands
  /\ pc \notin {"getStagedDiff"}
  /\ gitLog # <<>> /\ gitLog[1].ok
  /\ getStagedDiff(staged) = <<>>

\* getStagedFiles has returned as well, so that `if (!diff)` was evaluated
EmptyDiffChecked == EmptyDiffObtained /\ Len(gitLog) = 2 /\ gitLog[2].ok

C24_EmptyDiffOnlyWarns ==
  /\ EmptyDiffObtained =>
       /\ llmCalls = <<>>
       /\ scm.writes = 0 /\ scm.value = "typed by the user"
       /\ pc # "generate"
  /\ EmptyDiffChecked =>
       /\ notices = <<Notice("warning", "no staged changes found")>>
       /\ result = "returned"

C24_Witness == EmptyDiffChecked /\ staged = <<>> /\ pc = "done"

(***************************************************************************)
(* C25: the text returned by getStagedDiff consists, in the order of the   *)
(* file listing, of the placeholder line of every path that ends in        *)
(* 'lock.json', '.lock' or 'lock.yaml' and of the diff of every other      *)
(* path; no diff command is run for a lock-file path and no line of the    *)
(* text comes from the diff of one.                                        *)
(***************************************************************************)
\* the paths of Paths whose names end in one of the three suffixes
LockFilePaths == {<<"package-", "lock", ".", "json">>,
                  <<"yarn", ".", "lock">>,
                  <<"pnpm-", "lock", ".", "yaml">>}

\* what the text has to hold for one listed path
Expected(file) ==
  IF file \in LockFilePaths
  THEN <<[file |-> file, text |-> "[Lock file changes detected]"]>>
  ELSE FileDiff(file)

\* number of lines due to the first n listed paths
RECURSIVE LinesBefore(_, _)
LinesBefore(files, n) ==
  IF n = 0 THEN 0 ELSE LinesBefore(files, n - 1) + Len(Expected(files[n]))

\* getStagedDiff has just returned to the command
StagedDiffReturned == cmd \in CommitCommands /\ pc = "getStagedFiles"

C25_StagedDiffOmitsLockFiles ==
  StagedDiffReturned =>
    /\ Len(diffOutput) = LinesBefore(staged, Len(staged))
    /\ \A i \in 1..Len(staged) :
         \A k \in 1..Len(Expected(staged[i])) :
           diffOutput[LinesBefore(staged, i - 1) + k] = Expected(staged[i])[k]
    /\ \A c \in 1..Len(gitLog) :
         gitLog[c].name = "diff --cached" => gitLog[c].file \notin LockFilePaths
    /\ \A l \in 1..Len(diffOutput) :
         diffOutput[l].file \in LockFilePaths =>
           diffOutput[l].text = "[Lock file changes detected]"

\* a lock file listed before an ordinary file
C25_Witness ==
  /\ StagedDiffReturned
  /\ Len(staged) = 2
  /\ staged[1] \in LockFilePaths /\ staged[2] \notin LockFilePaths
  /\ Len(diffOutput) = 3

(***************************************************************************)
(* C26: getDetailedBranchDiff returns one entry for each commit that is on *)
(* the current branch and not on the base branch, and for no other commit, *)
(* newest first.                                                           *)
(***************************************************************************)
BranchDiffReturned == cmd = "prContext" /\ pc \in {"getPRTemplate", "prompt", "initialGen"}

OnBranchOnly == Reachable(graph, graph.head) \ Reachable(graph, graph.base)

C26_BranchDiffIsBranchOnly ==
  BranchDiffReturned =>
    /\ Len(branchDiff) = Cardinality(OnBranchOnly)
    /\ {branchDiff[i].message : i \in 1..Len(branchDiff)} = OnBranchOnly
    /\ \A i, j \in 1..Len(branchDiff) :
         i < j => branchDiff[i].message > branchDiff[j].message

(***************************************************************************)
(* C27: a generate call appends the latest commit message as an example    *)
(* only with learning mode on; with learning mode on the calls of the      *)
(* commit-message commands carry the example, the PR-title call and the    *)
(* refinement calls never do.                                              *)
(***************************************************************************)
C27_ExamplesFollowLearningMode ==
  \A i \in 1..Len(llmCalls) :
    LET call == llmCalls[i]
    IN  /\ call.example => call.learning
        /\ (call.site \in CommitCommands /\ call.learning /\ call.outcome # "gitFailed") =>
             call.example
        /\ call.site \in {"prTitle", "prRefine", "changelogRefine"} => ~call.example

(***************************************************************************)
(* C28: with no API key set, every generate call fails with the 'API key   *)
(* not found ... Set API Key' error before any request to a backend, and   *)
(* the command that made the call ends with the error notification without *)
(* writing the commit input box, opening a PR page or a document, touching *)
(* the clipboard or writing a file.                                        *)
(***************************************************************************)
NoApiKey == settings.apiKey = ""

GenerateCalled == llmCalls # <<>> \/ TotalGenCalls > 0

C28_NoApiKeyNoEffect ==
  NoApiKey =>
    /\ \A i \in 1..Len(llmCalls) :
         llmCalls[i].outcome = "keyMissing" /\ llmCalls[i].backend = "none"
    /\ TotalGenCalls <= 1 /\ Len(llmCalls) <= 1
    /\ GenerateCalled =>
         /\ pc = "done" /\ result = "returned"
         /\ LastNotice(notices).kind = "error"
    /\ scm.writes = 0
    /\ pagesOpened = 0 /\ docsOpened = 0 /\ continuations = 0
    /\ clipboardWrites = 0 /\ fileWrites = 0 /\ savedEntries = 0
    /\ pr = NoLoop /\ cl = NoLoop

\* generatePRDescription stopped at its first generate call
C28_Witness ==
  /\ NoApiKey
  /\ cmd = "pr" /\ genCalls = 1 /\ pc = "done"

(***************************************************************************)
(* C29: every generate call reads the provider, the API key and the        *)
(* learning-mode setting when it is made: whatever the instance did        *)
(* before, the call uses the backend of the provider now set, sends the    *)
(* key now set (or fails for the lack of one now), and sees learning mode  *)
(* as it is now.                                                           *)
(***************************************************************************)
BackendOf(provider) ==
  CASE provider = "groq" -> "groq"
    [] provider = "googleGenAI" -> "google"
    [] OTHER -> "openai"

UsesCurrentSettings(call) ==
  /\ call.learning = settings.useLearningMode
  /\ call.outcome = "keyMissing" <=> settings.apiKey = ""
  /\ call.outcome \in {"ok", "backendFailed"} =>
       /\ call.apiKey = settings.apiKey
       /\ call.backend = BackendOf(settings.provider)

C29_SettingsReadAtEachCall ==
  [][(cmd = "llm" /\ Len(llmCalls') = Len(llmCalls) + 1) =>
       UsesCurrentSettings(llmCalls'[Len(llmCalls')])]_vars

\* two calls of one refinement-loop instance, provider and learning mode edited in between
C29_Witness ==
  /\ cmd = "llm" /\ Len(llmCalls) = 2
  /\ llmCalls[1].site = "prInitial" /\ llmCalls[2].site = "prRefine"
  /\ llmCalls[1].backend = "groq" /\ llmCalls[2].backend = "google"
  /\ llmCalls[1].learning # llmCalls[2].learning

(***************************************************************************)
(* C30: getPRTemplate returns the prompt built from the configured custom  *)
(* template when that file can be read, else the one built from            *)
(* .github/PULL_REQUEST_TEMPLATE.md when that can be read, else null; an   *)
(* unreadable configured template gives a warning and the default lookup;  *)
(* with null the built-in prompt is used; and the lookup always returns,   *)
(* so that generatePRDescription goes on to its first generate call.       *)
(***************************************************************************)
TemplateLookedUp == cmd = "prContext" /\ pc \in {"prompt", "initialGen"}

CustomReadable ==
  templateFiles.rootOk /\ templateFiles.customPath # "" /\ templateFiles.custom = "readable"

CustomUnreadable ==
  templateFiles.rootOk /\ templateFiles.customPath # "" /\ templateFiles.custom = "unreadable"

DefaultReadable == templateFiles.rootOk /\ templateFiles.default = "readable"

TemplateWarning == Notice("warning", "could not load custom pull request template")

C30_TemplateLookupOrder ==
  /\ TemplateLookedUp =>
       /\ template = IF CustomReadable
                     THEN "GET_PR_TEMPLATE_PROMPT with the custom template"
                     ELSE IF DefaultReadable
                          THEN "GET_PR_TEMPLATE_PROMPT with the default template"
                          ELSE "null"
       /\ (\E n \in 1..Len(notices) : notices[n] = TemplateWarning) <=> CustomUnreadable
       /\ result = "running" /\ ~ErrorShown
  /\ (cmd = "prContext" /\ pc = "initialGen") =>
       prompt = IF CustomReadable \/ DefaultReadable
                THEN template
                ELSE "GENERATE_PR_DESCRIPTION_PROMPT"
  /\ (cmd = "prContext" /\ pc = "getPRTemplate") => ENABLED PRContextTemplate
  /\ (cmd = "prContext" /\ result = "unhandled") => template = "none"

\* the configured template cannot be read, the default one can
C30_Witness ==
  /\ cmd = "prContext" /\ pc = "initialGen"
  /\ CustomUnreadable /\ DefaultReadable
  /\ prompt = "GET_PR_TEMPLATE_PROMPT with the default template"
  /\ \E n \in 1..Len(notices) : notices[n] = TemplateWarning

\* openPRCreationPage was called and found a remote URL naming none of the
\* three supported hosts
UnsupportedRemote ==
  /\ continuations > 0
  /\ prRemote.repository /\ prRemote.url # NoFetchUrl
  /\ ~ \E h \in Hosts : includes(prRemote.url, h)

\* C31: when the remote URL contains none of github.com, gitlab.com,
\* bitbucket.org, openPRCreationPage opens a local markdown document whose
\* content is the description it was given, opens no external URL, and
\* returns normally (the command goes on to its "generated" notice).
C31_UnsupportedHostFallsBack ==
  UnsupportedRemote =>
    /\ prDocument # 0 /\ prDocument = continuedWith /\ continuedWith = pr.content
    /\ docsOpened >= 1
    /\ pagesOpened = 0
    /\ result # "unhandled"
    /\ \E n \in 1..Len(notices) :
         notices[n] = Notice("info", "pull request description and title generated")
    /\ ~ \E n \in 1..Len(notices) :
         notices[n] = Notice("error", "error generating pull request description")

C31_Witness ==
  /\ UnsupportedRemote
  /\ prRemote.url = <<"git@", "git.example.org", ":", "o/r", ".git">>
  /\ pr.refineCalls > 0
  /\ prDocument = pr.content

\* C32: at any time at most one git subprocess started by execGitCommand is
\* running against the working copy, also when a second command is started
\* before the first has finished.
C32_OneGitSubprocessAtATime == Cardinality(subprocesses) <= 1

SubheadingLines(text, h) == {j \in (h + 1)..SectionLast(text, h) : IsSubheading(text[j])}

\* every subheading at most once, in the fixed order, none without a bullet
SectionWellFormed(text, h) ==
  /\ \A j, k \in SubheadingLines(text, h) : j < k => Rank(text[j]) < Rank(text[k])
  /\ \A j \in SubheadingLines(text, h) :
       \E b \in (j + 1)..SectionLast(text, h) :
         /\ IsBullet(text[b])
         /\ \A m \in (j + 1)..b : ~IsSubheading(text[m])

\* C33: after any sequence of updateUnreleasedChangelog and updateChangelog
\* calls with well-formed entries, every section of CHANGELOG.md has each of
\* the subheadings Added, Changed, Deprecated, Removed, Fixed, Security at
\* most once, in that order, and none with zero bullets.
C33_SectionsStayWellFormed ==
  cmd = "changelogFile" =>
    \A h \in HeadingIndexes(changelogContent) : SectionWellFormed(changelogContent, h)

\* a refinement call of the PR loop settles in this step
RefinementSucceeds == pr.stage = "Applying" /\ pr'.refineCalls = pr.refineCalls + 1
                        /\ pr'.failures = pr.failures
RefinementFails == pr.stage = "Applying" /\ pr'.failures = pr.failures + 1

\* C34: the current content of the PR-description loop changes only when a
\* refinement call succeeds, and then to the result of that call; a failed
\* call keeps it, so what is presented after Retry, and what Submit hands to
\* the title generation and to openPRCreationPage, is the result of the last
\* call that succeeded (the first draft when none did).
C34_ContentChangesOnlyOnSuccess ==
  [][(cmd = "pr" /\ pc \in {"prLoop", "titleGen", "openPage"}) =>
       /\ pr'.content # pr.content => RefinementSucceeds
       /\ RefinementSucceeds => pr'.content = pr.refineCalls + 2
       /\ RefinementFails => (pr'.content = pr.content /\ pr'.stage = "RetryPrompt")
       /\ (pr.stage = "Iter" /\ pr'.stage = "Reviewing") => pr'.shown = pr.content
       /\ (pr.stage = "Reviewing" /\ pr'.stage = "Approved") => pr'.content = pr.content
       /\ titleFor' # titleFor => titleFor' = pr.content
       /\ continuations' # continuations => continuedWith' = pr.content]_vars

C34_Witness ==
  /\ cmd = "pr" /\ continuations = 1
  /\ pr.refineCalls = 2 /\ pr.failures = 1 /\ pr.stage = "Approved"
  /\ pr.content = 2 /\ pr.shown = 2 /\ titleFor = 2 /\ continuedWith = 2

\* the sections of a text other than Unreleased, in order, each with its
\* heading and its body
ReleasedSections(text) ==
  LET at == SelectSeq([i \in 1..Len(text) |-> i],
                      LAMBDA i : IsHeading(text[i]) /\ text[i] # UnreleasedHeading)
  IN  [k \in 1..Len(at) |-> <<text[at[k]]>> \o Body(text, at[k])]

\* an updateUnreleasedChangelog call is made in this step
UnreleasedUpdated == cmd = "changelogFile" /\ pc' = "updateUnreleasedChangelog"
                       /\ fileWrites' # fileWrites

\* C35: updateUnreleasedChangelog(N) on a changelog whose Unreleased body is
\* B leaves the Unreleased body B followed by N (N alone when B is empty),
\* leaves the preamble and every released section unchanged, and writes the
\* file once.
C35_UnreleasedAppended ==
  [][(UnreleasedUpdated /\ UnreleasedIndexes(getChangelogContent(changelogContent)) # {}) =>
       LET before == getChangelogContent(changelogContent)
       IN  /\ UnreleasedIndexes(changelogContent') # {}
           /\ Body(changelogContent', FirstUnreleased(changelogContent'))
                = Body(before, FirstUnreleased(before)) \o Content(savedEntries')
           /\ Preamble(changelogContent') = Preamble(before)
           /\ ReleasedSections(changelogContent') = ReleasedSections(before)
           /\ fileWrites' = fileWrites + 1]_vars

\* updateUnreleasedChangelog is called in this step
EntriesSaved == savedEntries' # savedEntries

\* C36: in generatePRDescription updateUnreleasedChangelog is called at most
\* once, only at the Save Changelog choice, after the PR description was
\* approved and the user answered Yes to updating the changelog, and with
\* the entries that were current at that choice; CHANGELOG.md gets generated
\* entries in no other step.
C36_EntriesSavedOnlyBySaveChoice ==
  [][cmd = "pr" =>
       /\ EntriesSaved =>
            /\ savedEntries = 0
            /\ cl.stage = "Approved" /\ cl.choice = "Submit"
            /\ pr.stage = "Approved" /\ continuations = 1
            /\ answer = "Yes"
            /\ savedEntries' = cl.content /\ cl.shown = cl.content
            /\ cl.content \in {1} \cup {k + 1 : k \in 1..cl.refineCalls}
            /\ pc' = "done"
       /\ changelog' = "updated" /\ changelog # "updated" => EntriesSaved
       /\ savedEntries # 0 => UNCHANGED vars]_vars

C36_Witness ==
  /\ cmd = "pr" /\ pc = "done"
  /\ savedEntries = 2 /\ cl.refineCalls = 1 /\ cl.dismissals = 1
  /\ changelog = "updated" /\ answer = "Yes"

\* the invocation has ended in the catch block, after updateChangelog wrote a
\* section and before `git commit` succeeded
FailedBetweenChangelogAndCommit ==
  /\ cmd = "release" /\ pc = "done" /\ LastNotice(notices).kind = "error"
  /\ changelog = "updated"
  /\ \E i \in OpIndexes : ops[i].op = "writeChangelog" /\ ops[i].ok
  /\ ~ \E i \in OpIndexes : ops[i].op = "commit" /\ ops[i].ok

UncommittedChanges == "failed to create release: repository has uncommitted changes"

\* C37: when createRelease fails before the version-bump commit succeeds,
\* the section written to CHANGELOG.md stays in the working copy,
\* uncommitted (nothing is rolled back); the command run again at once finds
\* the working copy dirty, and its validateRepositoryState step ends the
\* invocation with the 'uncommitted changes' error (or the error of a failed
\* `git status`) and touches nothing.
C37_FailedReleaseLeavesChangesBehind ==
  [][/\ FailedBetweenChangelogAndCommit =>
          /\ workingCopy.changelog \in {"modified", "staged"}
          /\ pc' = "validateStatus" => Dirty(workingCopy')
     /\ (cmd = "release" /\ pc = "validateStatus" /\ Dirty(workingCopy)) =>
          /\ pc' = "done" /\ result' = "returned"
          /\ ops' = <<Op(1, "status", FALSE)>>
          /\ LastNotice(notices') \in {Notice("error", UncommittedChanges),
                                       Notice("error", "failed to create release")}
          /\ UNCHANGED <<workingCopy, changelog, pkgVersion, fileWrites, tagged, published>>]_vars

\* the second invocation was refused because of the section the first one left behind
C37_Witness ==
  /\ cmd = "release" /\ pc = "done" /\ runs = 2
  /\ ~workingCopy.other
  /\ workingCopy.changelog = "staged"
  /\ ops = <<Op(1, "status", FALSE)>>
  /\ LastNotice(notices) = Notice("error", UncommittedChanges)

ReleaseReportedSuccess ==
  /\ cmd = "release" /\ pc = "done"
  /\ LastNotice(notices) = Notice("info", "successfully created release")

\* C38: whenever createReleaseCommand reports 'Successfully created release
\* V', the version field of package.json is V and the release commit (HEAD)
\* contains that change.
C38_SuccessMeansVersionBumped ==
  ReleaseReportedSuccess => pkgVersion = version /\ workingCopy.head = version

\* CHANGELOG.md is there and no line of it is the Unreleased heading
NoUnreleasedHeading(file) == file # NoFile /\ FirstUnreleased(file) = 0

Entered(s) == s.stage # "Idle"

\* the step from s to t leaves the loop, and it is a Submit or Cancel pick or a
\* Cancel (or dismissal) at the Retry prompt
EndsByUser(s, t) ==
  (Entered(s) /\ ~LoopDone(s) /\ LoopDone(t)) =>
    /\ t.stage \in {"Approved", "Cancelled"}
    /\ \/ s.stage = "Reviewing" /\ t.choice \in {"Submit", "Cancel"}
       \/ s.stage = "RetryPrompt" /\ t.retry \in {"Cancel", "dismiss"}

\* C40 as stated: each refinement loop ends only through Submit, Cancel or
\* Cancel at the Retry prompt, and, with a user who picks Submit or Cancel
\* at a choice prompt at some point, every loop that was entered ends in
\* Approved or Cancelled, whatever refinement calls fail and however often
\* the review editor is closed.
C40_LoopsEndApprovedOrCancelled ==
  /\ [][EndsByUser(pr, pr') /\ EndsByUser(cl, cl')]_vars
  /\ Entered(pr) ~> (pr.stage \in {"Approved", "Cancelled"})
  /\ Entered(cl) ~> (cl.stage \in {"Approved", "Cancelled"})

====
